---- MODULE Spec2Model ----
(***************************************************************************)
(* py-project-updater: repository state classification (GitManager),       *)
(* the operation log and conflict analysis (TestModeManager), the          *)
(* installer (PipInstaller) and the orchestrator (SubprojectManager).      *)
(*                                                                         *)
(* Strings are Python strings; the helpers below are the str methods the   *)
(* code calls (strip, split, startswith, endswith, in, lower).             *)
(***************************************************************************)
EXTENDS Integers, Sequences, FiniteSets, TLC

VARIABLES
    \* --- status classification (GitManager.get_git_status on its own) ---
    st_stdout,      \* captured stdout of `git status --porcelain`
    st_rc,          \* how it ended: "ok", "fail" or "raise"
    st_cherry,      \* captured stdout of `git cherry -v`
    st_result,      \* the tuple get_git_status returned, or NoResult
    \* --- operation log (TestModeManager) ---
    operations,     \* TestModeManager.operations
    summary,        \* what the last get_summary() computed, or NoResult
    \* --- orchestrator run (SubprojectManager.run) ---
    enabled,        \* TestModeManager.enabled: TRUE = dry-run
    git_only,       \* SubprojectManager.git_only
    ignored_subprojects,
    subprojects,    \* the discovered SubprojectInfo list
    worktree,       \* per subproject: what its checkout would answer to git
    executed,       \* every subprocess.run made so far, in order
    deleted,        \* paths unlinked / rmtree'd by artifact cleanup
    pc,             \* position in run()
    cur,            \* index of the subproject being processed
    loc,            \* locals of process_subproject / update_repository
    updates,        \* what each finished update_repository call did
    disturbed,      \* failed commands and foreign edits of a checkout so far
    faults,         \* every command that did not end with status zero, and for whom
    \* --- discovery (SubprojectFinder.find_subprojects) ---
    root_path,      \* the search root, as the tuple of its path segments (Path.parts)
    max_depth,
    above_marked,   \* whether the directory above the root holds a manifest or a .git directory
    dirs,           \* the directories below the root, in the order rglob walks them
    found_subprojects,  \* the local list `subprojects` of find_subprojects
    processed_paths,
    scan,           \* which of the two loops is running, and its position
    \* --- a pure function under check ---
    arg,            \* its arguments
    ret             \* what it returned, or NoResult

statusVars == <<st_stdout, st_rc, st_cherry, st_result>>
logVars == <<operations, summary>>
runVars == <<enabled, git_only, ignored_subprojects, subprojects, worktree,
             executed, deleted, pc, cur, loc, updates, disturbed, faults>>
finderVars == <<root_path, max_depth, above_marked, dirs, found_subprojects, processed_paths, scan>>
fnVars == <<arg, ret>>
auxVars == <<finderVars, fnVars>>
vars == <<statusVars, logVars, runVars, auxVars>>

NoResult == [none |-> TRUE]

\* discovery and the function under check take no part
FinderIdle ==
    /\ root_path = <<>> /\ max_depth = 0 /\ above_marked = FALSE /\ dirs = <<>>
    /\ found_subprojects = <<>>
    /\ processed_paths = {} /\ scan = [loop |-> "idle", i |-> 1]
FnIdle == arg = NoResult /\ ret = NoResult
AuxIdle == FinderIdle /\ FnIdle
StatusIdle == st_stdout = "" /\ st_rc = "ok" /\ st_cherry = "" /\ st_result = NoResult
LogIdle == operations = <<>> /\ summary = NoResult

None == "<None>"

-----------------------------------------------------------------------------
(* Python str methods *)

IsSpace(c) == c \in {" ", "\t", "\n", "\r"}

StartsWith(s, p) == Len(p) <= Len(s) /\ SubSeq(s, 1, Len(p)) = p

EndsWith(s, p) == Len(p) <= Len(s) /\ SubSeq(s, Len(s) - Len(p) + 1, Len(s)) = p

\* p in s
Contains(s, p) == \E i \in 1..(Len(s) - Len(p) + 1) : SubSeq(s, i, i + Len(p) - 1) = p

\* s.find(p) + 1: the first position of p in s, 0 when absent
Find(s, p) ==
    LET hits == {i \in 1..(Len(s) - Len(p) + 1) : SubSeq(s, i, i + Len(p) - 1) = p}
    IN  IF hits = {} THEN 0 ELSE CHOOSE i \in hits : \A j \in hits : i <= j

RECURSIVE LStrip(_)
LStrip(s) == IF Len(s) > 0 /\ IsSpace(SubSeq(s, 1, 1)) THEN LStrip(SubSeq(s, 2, Len(s))) ELSE s

RECURSIVE RStrip(_)
RStrip(s) ==
    IF Len(s) > 0 /\ IsSpace(SubSeq(s, Len(s), Len(s)))
    THEN RStrip(SubSeq(s, 1, Len(s) - 1)) ELSE s

Strip(s) == LStrip(RStrip(s))

\* s.rstrip(c) for a one-character c
RECURSIVE RStripChar(_, _)
RStripChar(s, c) ==
    IF Len(s) > 0 /\ SubSeq(s, Len(s), Len(s)) = c
    THEN RStripChar(SubSeq(s, 1, Len(s) - 1), c) ELSE s

\* s.split(sep): every piece, empty ones included; "".split(sep) is [""]
RECURSIVE Split(_, _)
Split(s, sep) ==
    LET i == Find(s, sep)
    IN  IF i = 0 THEN <<s>>
        ELSE <<SubSeq(s, 1, i - 1)>> \o Split(SubSeq(s, i + Len(sep), Len(s)), sep)

\* s.split(sep, 1)
SplitOnce(s, sep) ==
    LET i == Find(s, sep)
    IN  IF i = 0 THEN <<s>>
        ELSE <<SubSeq(s, 1, i - 1), SubSeq(s, i + Len(sep), Len(s))>>

\* the first whitespace-free word of a string that starts with none
RECURSIVE WordLen(_)
WordLen(s) ==
    IF Len(s) = 0 \/ IsSpace(SubSeq(s, 1, 1)) THEN 0 ELSE 1 + WordLen(SubSeq(s, 2, Len(s)))

\* s.split(): the words between runs of whitespace
RECURSIVE Words(_)
Words(s) ==
    LET t == LStrip(s)
        n == WordLen(t)
    IN  IF Len(t) = 0 THEN <<>>
        ELSE <<SubSeq(t, 1, n)>> \o Words(SubSeq(t, n + 1, Len(t)))

Upper == <<"A","B","C","D","E","F","G","H","I","J","K","L","M",
           "N","O","P","Q","R","S","T","U","V","W","X","Y","Z">>
LowerS == <<"a","b","c","d","e","f","g","h","i","j","k","l","m",
            "n","o","p","q","r","s","t","u","v","w","x","y","z">>

LowerChar(c) ==
    IF \E k \in 1..26 : Upper[k] = c
    THEN LowerS[CHOOSE k \in 1..26 : Upper[k] = c] ELSE c

RECURSIVE Lower(_)
Lower(s) == IF Len(s) = 0 THEN "" ELSE LowerChar(SubSeq(s, 1, 1)) \o Lower(SubSeq(s, 2, Len(s)))

RECURSIVE Join(_, _)
Join(seq, sep) ==
    IF Len(seq) = 0 THEN ""
    ELSE IF Len(seq) = 1 THEN seq[1]
    ELSE seq[1] \o sep \o Join(Tail(seq), sep)

Range(seq) == {seq[i] : i \in 1..Len(seq)}

-----------------------------------------------------------------------------
(* GitManager: status classification *)

PYTHON_IGNORE_PATTERNS ==
    <<"*.pyc", "*.pyo", "*.pyd", "__pycache__/", "*.so", "*.egg-info/",
      ".pytest_cache/", ".mypy_cache/", ".coverage", "htmlcov/", ".tox/",
      ".eggs/", "build/", "dist/", "*.egg">>

\* the `matches` expression of _is_ignored_change
PatternMatches(filename, pattern) ==
    \/ EndsWith(filename, RStripChar(pattern, "/"))
    \/ (EndsWith(pattern, "/") /\ StartsWith(filename, pattern))

\* the status-character test of _is_ignored_change
StatusRelevant(index_status, working_status) ==
    working_status \in {"?", "M"} \/ index_status \in {"M", "A"}

_is_ignored_change(status_line) ==
    IF Len(status_line) < 3 THEN FALSE
    ELSE LET index_status == SubSeq(status_line, 1, 1)
             working_status == SubSeq(status_line, 2, 2)
             filename == Strip(SubSeq(status_line, 4, Len(status_line)))
         IN  IF StatusRelevant(index_status, working_status)
             THEN \E k \in 1..Len(PYTHON_IGNORE_PATTERNS) :
                      PatternMatches(filename, PYTHON_IGNORE_PATTERNS[k])
             ELSE FALSE

\* raw_status_lines = status_result.stdout.strip().split("\n")
RawStatusLines(stdout) == Split(Strip(stdout), "\n")

\* the loop with the ignore filter left out
RelevantLine_NoFilter(line) == line # ""

\* the loop building relevant_changes
RelevantLine(line) == line # "" /\ ~_is_ignored_change(line)
RelevantChanges(raw_status_lines) == SelectSeq(raw_status_lines, RelevantLine)

WasCleanedByFiltering(raw_status_lines, relevant_changes) ==
    Len(raw_status_lines) > Len(relevant_changes)

MsgStatusFailed == "Failed to get Git status"
MsgDirty == "Repository has uncommitted changes"
MsgAhead == "Repository has unpushed commits"
MsgClean == "Repository is clean"

\* get_git_status, given what the two commands answer: rc is "ok" (exit status
\* zero), "fail" (non-zero) or "raise" (subprocess.run raised: the except branch).
get_git_status(rc, stdout, cherry_stdout) ==
    IF rc = "raise"
    THEN [is_clean |-> FALSE, status_msg |-> "Error checking Git status: raised",
          was_cleaned_by_filtering |-> FALSE, ran_cherry |-> FALSE]
    ELSE IF rc # "ok"
    THEN [is_clean |-> FALSE, status_msg |-> MsgStatusFailed,
          was_cleaned_by_filtering |-> FALSE, ran_cherry |-> FALSE]
    ELSE LET raw_status_lines == RawStatusLines(stdout)
             relevant_changes == RelevantChanges(raw_status_lines)
             was_cleaned == WasCleanedByFiltering(raw_status_lines, relevant_changes)
         IN  IF Len(relevant_changes) > 0
             THEN [is_clean |-> FALSE, status_msg |-> MsgDirty,
                   was_cleaned_by_filtering |-> was_cleaned, ran_cherry |-> FALSE]
             ELSE IF Strip(cherry_stdout) # ""
             THEN [is_clean |-> FALSE, status_msg |-> MsgAhead,
                   was_cleaned_by_filtering |-> was_cleaned, ran_cherry |-> TRUE]
             ELSE [is_clean |-> TRUE, status_msg |-> MsgClean,
                   was_cleaned_by_filtering |-> was_cleaned, ran_cherry |-> TRUE]

-----------------------------------------------------------------------------
(* Inputs of the status classification *)

MaxStatusLines == 2

\* porcelain lines: two status characters, a space, the filename
StatusLineSamples ==
    <<"?? pkg/mod.pyc", "?? __pycache__/", " M src/app.py", " D build/old.txt",
      "?? notes.txt", "M  dist/wheel.egg", "A  lib/x.so", "?? pkg/__pycache__/",
      " M setup.py", "?? build/", " M _build/conf.py">>

CherrySamples == {"", "+ 1a2b3c4 local commit\n"}

RECURSIVE StatusOutputsOfLen(_)
StatusOutputsOfLen(n) ==
    IF n = 0 THEN {""}
    ELSE {StatusLineSamples[k] \o "\n" \o rest :
            k \in 1..Len(StatusLineSamples), rest \in StatusOutputsOfLen(n - 1)}

StatusOutputs == UNION {StatusOutputsOfLen(n) : n \in 0..MaxStatusLines}

-----------------------------------------------------------------------------
(* TestModeManager: the operation log *)

\* OperationResult(success, message, command, changes, project_name)
OperationResult(success, message, command, changes, project_name) ==
    [success |-> success, message |-> message, command |-> command,
     changes |-> changes, project_name |-> project_name]

\* log_operation putting the new record first
log_operation_Prepend(ops, success, message, command, changes, project_name) ==
    <<OperationResult(success, message, command, changes, project_name)>> \o ops

\* log_operation: self.operations.append(result)
log_operation(ops, success, message, command, changes, project_name) ==
    Append(ops, OperationResult(success, message, command, changes, project_name))

\* `not op.project_name`: None and "" are both falsy
Falsy(s) == s = None \/ s = ""

(* Python dicts keep insertion order: a dict is a sequence of [key, value]
   entries with pairwise distinct keys. *)
DictKeys(d) == [i \in 1..Len(d) |-> d[i].key]
DictHas(d, k) == \E i \in 1..Len(d) : d[i].key = k
DictGet(d, k) == d[CHOOSE i \in 1..Len(d) : d[i].key = k].value
\* d[k] = v: a new key goes to the end, an existing key keeps its place
DictSet(d, k, v) ==
    IF DictHas(d, k)
    THEN [i \in 1..Len(d) |-> IF d[i].key = k THEN [key |-> k, value |-> v] ELSE d[i]]
    ELSE Append(d, [key |-> k, value |-> v])

\* the package token of an install record: parts[1], split on the first "=="
PackageSpecOf(message) == Words(message)[2]
PackageOf(package_spec) ==
    IF Contains(package_spec, "==") THEN SplitOnce(package_spec, "==")[1] ELSE package_spec
VersionOf(package_spec) ==
    IF Contains(package_spec, "==") THEN SplitOnce(package_spec, "==")[2] ELSE "any"

\* the first loop of _analyze_package_conflicts: package -> {project -> version}
RECURSIVE PackageVersions(_, _, _)
PackageVersions(ops, i, package_versions) ==
    IF i > Len(ops) THEN package_versions
    ELSE LET op == ops[i]
         IN  IF ~op.success \/ Falsy(op.project_name)
             THEN PackageVersions(ops, i + 1, package_versions)
             ELSE IF Contains(Lower(op.message), "installed") /\ Len(Words(op.message)) >= 2
             THEN LET package_spec == PackageSpecOf(op.message)
                      package == PackageOf(package_spec)
                      version == VersionOf(package_spec)
                      versions == IF DictHas(package_versions, package)
                                  THEN DictGet(package_versions, package) ELSE <<>>
                  IN  PackageVersions(ops, i + 1,
                          DictSet(package_versions, package,
                                  DictSet(versions, op.project_name, version)))
             ELSE PackageVersions(ops, i + 1, package_versions)

\* the test without the comparison of the versions
IsConflict_AnyShared(versions) == Len(versions) > 1

\* `if len(versions) > 1: ... if len(unique_versions) > 1`
IsConflict(versions) ==
    Len(versions) > 1 /\ Cardinality({versions[i].value : i \in 1..Len(versions)}) > 1

\* the second loop: conflicts, package -> [(project, version), ...]
RECURSIVE Conflicts(_, _, _)
Conflicts(package_versions, i, conflicts) ==
    IF i > Len(package_versions) THEN conflicts
    ELSE LET package == package_versions[i].key
             versions == package_versions[i].value
         IN  IF IsConflict(versions)
             THEN Conflicts(package_versions, i + 1,
                      DictSet(conflicts, package,
                              [k \in 1..Len(versions) |-> <<versions[k].key, versions[k].value>>]))
             ELSE Conflicts(package_versions, i + 1, conflicts)

\* the second loop: unique_packages, project -> [package, ...]
RECURSIVE UniquePackages(_, _, _)
UniquePackages(package_versions, i, unique_packages) ==
    IF i > Len(package_versions) THEN unique_packages
    ELSE LET package == package_versions[i].key
             versions == package_versions[i].value
         IN  IF Len(versions) > 1
             THEN UniquePackages(package_versions, i + 1, unique_packages)
             ELSE LET project == versions[1].key
                      had == IF DictHas(unique_packages, project)
                             THEN DictGet(unique_packages, project) ELSE <<>>
                  IN  UniquePackages(package_versions, i + 1,
                          DictSet(unique_packages, project, Append(had, package)))

_analyze_package_conflicts(ops) ==
    LET package_versions == PackageVersions(ops, 1, <<>>)
    IN  [conflicts |-> Conflicts(package_versions, 1, <<>>),
         unique_packages |-> UniquePackages(package_versions, 1, <<>>)]

\* project_ops: the named records grouped by project_name, in order of first arrival
RECURSIVE ProjectOps(_, _, _)
ProjectOps(ops, i, project_ops) ==
    IF i > Len(ops) THEN project_ops
    ELSE LET op == ops[i]
         IN  IF Falsy(op.project_name) THEN ProjectOps(ops, i + 1, project_ops)
             ELSE ProjectOps(ops, i + 1,
                     DictSet(project_ops, op.project_name,
                             IF DictHas(project_ops, op.project_name)
                             THEN Append(DictGet(project_ops, op.project_name), op)
                             ELSE <<op>>))

\* project_info = {p.name: p for p in self.subprojects}
RECURSIVE ProjectInfo(_, _, _)
ProjectInfo(subs, i, project_info) ==
    IF i > Len(subs) THEN project_info
    ELSE ProjectInfo(subs, i + 1, DictSet(project_info, subs[i].name, subs[i]))

\* `if project_info.get(project) and project_info[project].path == self.root_path`
IsMainProject(project, project_info, root) ==
    DictHas(project_info, project) /\ DictGet(project_info, project).path = root

HasErrors(ops) == \E k \in 1..Len(ops) : ~ops[k].success
HasWarnings(ops) == \E k \in 1..Len(ops) : Contains(Lower(ops[k].message), "warning")
InstallCount(ops) ==
    Cardinality({k \in 1..Len(ops) : ops[k].success /\ Contains(Lower(ops[k].message), "installed")})

\* the loop that finds git_status and git_operation: the last record of each kind
RECURSIVE GitColumns(_, _, _)
GitColumns(ops, i, cols) ==
    IF i > Len(ops) THEN cols
    ELSE LET op == ops[i]
             msg == Lower(op.message)
             pieces == Split(op.message, ":")
         IN  IF op.success /\ (Contains(msg, "pull") \/ Contains(msg, "fetch"))
             THEN GitColumns(ops, i + 1,
                     [cols EXCEPT !.git_operation = IF Contains(msg, "pull") THEN "pull" ELSE "fetch"])
             ELSE IF op.success /\ Contains(msg, "status")
             THEN GitColumns(ops, i + 1, [cols EXCEPT !.git_status = Strip(pieces[Len(pieces)])])
             ELSE GitColumns(ops, i + 1, cols)

\* get_summary with has_warnings looked at before has_errors
ClassifyProject_WarningsFirst(project, ops, subproject_error, lists) ==
    IF HasWarnings(ops)
    THEN [lists EXCEPT !.warning_projects = Append(@,
            [name |-> project,
             msg |-> ops[CHOOSE k \in 1..Len(ops) :
                            /\ Contains(Lower(ops[k].message), "warning")
                            /\ \A j \in 1..(k - 1) : ~Contains(Lower(ops[j].message), "warning")].message])]
    ELSE IF HasErrors(ops)
    THEN [lists EXCEPT !.error_projects = Append(@,
            [name |-> project,
             msg |-> ops[CHOOSE k \in 1..Len(ops) :
                            ~ops[k].success /\ \A j \in 1..(k - 1) : ops[j].success].message])]
    ELSE [lists EXCEPT !.success_projects = Append(@, [name |-> project])]

\* the if / elif / else that puts one project into one of the three lists
ClassifyProject(project, ops, subproject_error, lists) ==
    IF HasErrors(ops)
    THEN [lists EXCEPT
            !.error_projects = Append(@,
                [name |-> project,
                 msg |-> ops[CHOOSE k \in 1..Len(ops) :
                                ~ops[k].success /\ \A j \in 1..(k - 1) : ops[j].success].message]),
            !.error_details = IF Falsy(subproject_error) THEN @
                              ELSE Append(@, [name |-> project, error |-> subproject_error])]
    ELSE IF HasWarnings(ops)
    THEN [lists EXCEPT !.warning_projects = Append(@,
            [name |-> project,
             msg |-> ops[CHOOSE k \in 1..Len(ops) :
                            /\ Contains(Lower(ops[k].message), "warning")
                            /\ \A j \in 1..(k - 1) : ~Contains(Lower(ops[j].message), "warning")].message])]
    ELSE LET cols == GitColumns(ops, 1, [git_status |-> None, git_operation |-> None])
         IN  [lists EXCEPT !.success_projects = Append(@,
                [name |-> project, install_count |-> InstallCount(ops),
                 git_status |-> cols.git_status, git_operation |-> cols.git_operation,
                 error |-> subproject_error])]

\* `for project, ops in project_ops.items()`: the three lists and error_details
RECURSIVE ProjectLists(_, _, _, _, _)
ProjectLists(project_ops, i, project_info, root, lists) ==
    IF i > Len(project_ops) THEN lists
    ELSE LET project == project_ops[i].key
             ops == project_ops[i].value
             subproject_error == IF DictHas(project_info, project)
                                 THEN DictGet(project_info, project).error ELSE None
         IN  IF IsMainProject(project, project_info, root)
             THEN ProjectLists(project_ops, i + 1, project_info, root, lists)
             ELSE ProjectLists(project_ops, i + 1, project_info, root,
                               ClassifyProject(project, ops, subproject_error, lists))

\* Path.name of an entry of the checkout ("pkg/__pycache__/" -> "__pycache__")
RECURSIVE BaseName(_)
BaseName(f) ==
    LET g == RStripChar(f, "/")
        i == Find(g, "/")
    IN  IF i = 0 THEN g ELSE BaseName(SubSeq(g, i + 1, Len(g)))

\* Python's order of str, character by character by code point (the ASCII range,
\* but for the grave accent, which no name or message of the samples holds)
CodePoints ==
    "\t\n\r !\"#$%&'()*+,-./0123456789:;<=>?@ABCDEFGHIJKLMNOPQRSTUVWXYZ[\\]^_abcdefghijklmnopqrstuvwxyz{|}~"
RECURSIVE StrLess(_, _)
StrLess(a, b) ==
    IF Len(b) = 0 THEN FALSE
    ELSE IF Len(a) = 0 THEN TRUE
    ELSE LET x == Find(CodePoints, SubSeq(a, 1, 1))
             y == Find(CodePoints, SubSeq(b, 1, 1))
         IN  IF x # y THEN x < y
             ELSE StrLess(SubSeq(a, 2, Len(a)), SubSeq(b, 2, Len(b)))

\* status_order.get(git_status, 3) if git_status else 3
StatusOrder(git_status) ==
    IF git_status = "Repository is clean" THEN 0
    ELSE IF git_status = "Repository has uncommitted changes" THEN 1
    ELSE IF git_status = "Repository has unpushed commits" THEN 2
    ELSE 3

\* sort_key(item): (0, 4, "", name) for a name that is no discovered subproject's,
\* else (parent_name, git_status_order, git_status or "", name), git_status being
\* that of the first successful record whose message holds "status"
sort_key(project_name, project_ops, project_info) ==
    IF ~DictHas(project_info, project_name)
    THEN [known |-> FALSE, parent_name |-> "", git_status_order |-> 4, git_status |-> "",
          project_name |-> project_name]
    ELSE LET info == DictGet(project_info, project_name)
             ops == IF DictHas(project_ops, project_name)
                    THEN DictGet(project_ops, project_name) ELSE <<>>
             hits == SelectSeq(ops, LAMBDA op : op.success /\ Contains(Lower(op.message), "status"))
             pieces == IF Len(hits) = 0 THEN <<>> ELSE Split(hits[1].message, ":")
             git_status == IF Len(hits) = 0 THEN None ELSE Strip(pieces[Len(pieces)])
         IN  [known |-> TRUE,
              parent_name |-> IF "parent_path" \in DOMAIN info /\ info.parent_path # None
                              THEN BaseName(info.parent_path) ELSE "",
              git_status_order |-> IF Falsy(git_status) THEN 3 ELSE StatusOrder(git_status),
              git_status |-> IF Falsy(git_status) THEN "" ELSE git_status,
              project_name |-> project_name]

\* the order of two keys of one kind, as Python orders tuples
KeyLess(a, b) ==
    IF a.parent_name # b.parent_name THEN StrLess(a.parent_name, b.parent_name)
    ELSE IF a.git_status_order # b.git_status_order THEN a.git_status_order < b.git_status_order
    ELSE IF a.git_status # b.git_status THEN StrLess(a.git_status, b.git_status)
    ELSE StrLess(a.project_name, b.project_name)

\* sorted(section, key=sort_key): stable, each item goes behind the items that are
\* not greater
RECURSIVE SortedSection(_, _, _, _, _)
SortedSection(section, i, project_ops, project_info, out) ==
    IF i > Len(section) THEN out
    ELSE LET key == sort_key(section[i].name, project_ops, project_info)
             before == SelectSeq(out, LAMBDA e :
                           ~KeyLess(key, sort_key(e.name, project_ops, project_info)))
             behind == SelectSeq(out, LAMBDA e :
                           KeyLess(key, sort_key(e.name, project_ops, project_info)))
         IN  SortedSection(section, i + 1, project_ops, project_info,
                           before \o <<section[i]>> \o behind)

\* sorted() has to compare (0, 4, "", name) with (parent_name, ...): int with str
MixedKeys(section, project_info) ==
    \E j, k \in 1..Len(section) :
        DictHas(project_info, section[j].name) /\ ~DictHas(project_info, section[k].name)

\* get_summary: reads self.operations, self.subprojects and self.root_path and
\* returns the report in the order it is rendered: the three per-project sections
\* sorted by sort_key, the two package views in the order of their dicts, and the
\* sorted error details; TypeError when a section cannot be sorted
get_summary(ops, subs, root) ==
    LET project_ops == ProjectOps(ops, 1, <<>>)
        project_info == ProjectInfo(subs, 1, <<>>)
        lists == ProjectLists(project_ops, 1, project_info, root,
                              [error_projects |-> <<>>, warning_projects |-> <<>>,
                               success_projects |-> <<>>, error_details |-> <<>>])
        packages == _analyze_package_conflicts(ops)
    IN  IF \/ MixedKeys(lists.error_projects, project_info)
           \/ MixedKeys(lists.warning_projects, project_info)
           \/ MixedKeys(lists.success_projects, project_info)
        THEN [raised |-> "TypeError"]
        ELSE [error_projects |-> SortedSection(lists.error_projects, 1, project_ops, project_info, <<>>),
              warning_projects |-> SortedSection(lists.warning_projects, 1, project_ops, project_info, <<>>),
              success_projects |-> SortedSection(lists.success_projects, 1, project_ops, project_info, <<>>),
              conflicts |-> packages.conflicts,
              unique_packages |-> packages.unique_packages,
              error_details |-> SortedSection(lists.error_details, 1, project_ops, project_info, <<>>)]

-----------------------------------------------------------------------------
(* The recorder on its own: any sequence of record() and summarize() calls *)

MaxOps == 3

RecordSamples ==
    { OperationResult(TRUE, "Installed pkg==1.0.0", None, <<>>, "A"),
      OperationResult(TRUE, "Installed pkg==2.0.0", None, <<>>, "B"),
      OperationResult(TRUE, "Installed pkg==1.0.0", None, <<>>, "B"),
      OperationResult(TRUE, "Installed other==1.0.0", None, <<>>, "A"),
      OperationResult(TRUE, "Installed pkg", None, <<>>, "C"),
      OperationResult(FALSE, "Failed to install pkg==2.0.0: not installed", None, <<>>, "A"),
      OperationResult(TRUE, "Installed pkg==2.0.0", None, <<>>, None),
      OperationResult(TRUE, "Would install package: other==3.0.0",
                      "/env/bin/pip install other==3.0.0",
                      <<"Install other in virtual environment">>, None),
      OperationResult(TRUE, "Git status: Repository is clean", None, <<>>, "B") }

-----------------------------------------------------------------------------
(* Package / Version models *)

\* the VersionSpecifier enum, in declaration order
VersionSpecifier == <<"==", ">=", "<=", ">", "<", "~=", "!=">>

\* Version.__str__
VersionStr(version) == version.specifier \o version.version

\* Package.version when the line holds no specifier (Optional[Version] = None)
NoVersion == [specifier |-> "", version |-> ""]

\* Package.__str__
PackageStr(package) ==
    IF package.version # NoVersion THEN package.name \o VersionStr(package.version)
    ELSE package.name

\* Package.from_string
from_string(package_str) ==
    LET found == SelectSeq(VersionSpecifier, LAMBDA v : Contains(package_str, v))
    IN  IF Len(found) = 0 THEN [name |-> Strip(package_str), version |-> NoVersion]
        ELSE LET specifier == found[1]
                 pieces == SplitOnce(package_str, specifier)
             IN  [name |-> Strip(pieces[1]),
                  version |-> [specifier |-> specifier, version |-> Strip(pieces[2])]]

\* SubprojectFinder._parse_requirements over the manifest's lines
RECURSIVE _parse_requirements_FirstWins(_, _, _)
RECURSIVE _parse_requirements(_, _, _)
_parse_requirements_FirstWins(lines, i, requirements) ==
    IF i > Len(lines) THEN requirements
    ELSE LET line == Strip(lines[i])
         IN  IF line # "" /\ ~StartsWith(line, "#")
             THEN LET pkg == from_string(line)
                  IN  _parse_requirements_FirstWins(lines, i + 1,
                          IF DictHas(requirements, pkg.name) THEN requirements
                          ELSE DictSet(requirements, pkg.name, pkg))
             ELSE _parse_requirements_FirstWins(lines, i + 1, requirements)
_parse_requirements(lines, i, requirements) ==
    IF i > Len(lines) THEN requirements
    ELSE LET line == Strip(lines[i])
         IN  IF line # "" /\ ~StartsWith(line, "#")
             THEN LET pkg == from_string(line)
                  IN  _parse_requirements(lines, i + 1, DictSet(requirements, pkg.name, pkg))
             ELSE _parse_requirements(lines, i + 1, requirements)

\* SubprojectInfo as discovery creates it
SubprojectInfo(path, name, manifest) ==
    [path |-> path, name |-> name,
     requirements |-> _parse_requirements(manifest, 1, <<>>),
     github_url |-> None, last_commit_date |-> None, error |-> None]

\* packaging.version.parse for the versions the samples hold: a final release
\* N(.N)* gives its numbers, a string that is no PEP 440 version raises
\* InvalidVersion (pre-, post-, dev- and local forms are not among the samples)
IsDigits(s) == Len(s) > 0 /\ \A i \in 1..Len(s) : Contains("0123456789", SubSeq(s, i, i))
RECURSIVE ToInt(_)
ToInt(s) ==
    IF Len(s) = 0 THEN 0
    ELSE 10 * ToInt(SubSeq(s, 1, Len(s) - 1))
         + (Find("0123456789", SubSeq(s, Len(s), Len(s))) - 1)
InvalidVersion == [valid |-> FALSE, release |-> <<>>]
parse(version) ==
    LET pieces == Split(Strip(version), ".")
    IN  IF \A k \in 1..Len(pieces) : IsDigits(pieces[k])
        THEN [valid |-> TRUE, release |-> [k \in 1..Len(pieces) |-> ToInt(pieces[k])]]
        ELSE InvalidVersion

\* the order of two parsed versions: their releases compared number by number,
\* the shorter one padded with zeros (1.0 == 1.0.0); -1, 0 or 1
RECURSIVE CmpRelease(_, _)
CmpRelease(a, b) ==
    IF Len(a) = 0 /\ Len(b) = 0 THEN 0
    ELSE LET x == IF Len(a) = 0 THEN 0 ELSE a[1]
             y == IF Len(b) = 0 THEN 0 ELSE b[1]
         IN  IF x < y THEN -1
             ELSE IF x > y THEN 1
             ELSE CmpRelease(IF Len(a) = 0 THEN a ELSE Tail(a), IF Len(b) = 0 THEN b ELSE Tail(b))
Cmp(v, w) == CmpRelease(v.release, w.release)

\* is_compatible_with where `~=` stops at the next minor release
is_compatible_with_NextMinor(version, other_version) ==
    LET current == parse(version.version)
        other == parse(other_version)
    IN  IF ~current.valid \/ ~other.valid THEN FALSE
        ELSE IF version.specifier = "~="
        THEN LET minor == IF Len(current.release) >= 2 THEN current.release[2] ELSE 0
                 next_minor == [valid |-> TRUE, release |-> <<current.release[1], minor + 1, 0>>]
             IN  Cmp(other, current) >= 0 /\ Cmp(other, next_minor) < 0
        ELSE IF version.specifier = "==" THEN Cmp(current, other) = 0
        ELSE IF version.specifier = ">=" THEN Cmp(other, current) >= 0
        ELSE IF version.specifier = "<=" THEN Cmp(other, current) <= 0
        ELSE IF version.specifier = ">" THEN Cmp(other, current) > 0
        ELSE IF version.specifier = "<" THEN Cmp(other, current) < 0
        ELSE IF version.specifier = "!=" THEN Cmp(other, current) # 0
        ELSE FALSE

\* Version.is_compatible_with(other_version); an InvalidVersion raised by either
\* parse is caught and gives False
is_compatible_with(version, other_version) ==
    LET current == parse(version.version)
        other == parse(other_version)
    IN  IF ~current.valid \/ ~other.valid THEN FALSE
        ELSE IF version.specifier = "==" THEN Cmp(current, other) = 0
        ELSE IF version.specifier = ">=" THEN Cmp(other, current) >= 0
        ELSE IF version.specifier = "<=" THEN Cmp(other, current) <= 0
        ELSE IF version.specifier = ">" THEN Cmp(other, current) > 0
        ELSE IF version.specifier = "<" THEN Cmp(other, current) < 0
        ELSE IF version.specifier = "~="
        THEN LET next_major == [valid |-> TRUE, release |-> <<current.release[1] + 1, 0, 0>>]
             IN  Cmp(other, current) >= 0 /\ Cmp(other, next_major) < 0
        ELSE IF version.specifier = "!=" THEN Cmp(other, current) # 0
        ELSE FALSE

\* the version strings the comparisons are tried on
VersionSamples ==
    {"2.1.0", "2.9.9", "3.0.0", "2.0.9", "2.10.0", "2.2.0", "2.0.0", "1.0", "1.0.0", "1.0.1", "2",
     "not.a.version", "", "1..0"}

\* compare_versions without the branch for an exact reference
compare_versions_ReferenceSide(main_package, sub_package) ==
    IF main_package.version = NoVersion \/ sub_package.version = NoVersion THEN FALSE
    ELSE ~is_compatible_with(main_package.version, sub_package.version.version)

\* VersionComparator.compare_versions(main_package, sub_package); nothing in the
\* try block raises InvalidVersion, is_compatible_with has caught it
compare_versions(main_package, sub_package) ==
    IF main_package.version = NoVersion \/ sub_package.version = NoVersion THEN FALSE
    ELSE IF main_package.version.specifier = "=="
    THEN ~is_compatible_with(sub_package.version, main_package.version.version)
    ELSE ~is_compatible_with(main_package.version, sub_package.version.version)

\* the declarations of one dependency the comparator is tried on
PackageSamples ==
    {[name |-> "foo", version |-> v] :
        v \in {NoVersion} \cup [specifier : Range(VersionSpecifier), version : VersionSamples]}

-----------------------------------------------------------------------------
(* PipInstaller *)

env_path == "/env"

\* _pip_path (os.name != "nt")
_pip_path(env) == env \o "/bin/pip"

\* the spec argument of install_package
InstallSpec(package, version) ==
    IF version # None THEN package \o "==" \o version ELSE package

BenignStderr ==
    <<"already satisfied", "requirement already satisfied", "dependency conflict",
      "conflicting dependencies", "version conflict", "incompatible dependencies">>

\* A command as subprocess.run saw it
Cmd(cmd, cwd, rc) == [cmd |-> cmd, cwd |-> cwd, rc |-> rc]

\* install_package with the dry-run branch left out
install_package_NoDryRun(en, package, version, env, rc, stderr, ops, exe) ==
    LET pip_cmd == Join(<<_pip_path(env), "install", InstallSpec(package, version)>>, " ")
        ran == Append(exe, Cmd(pip_cmd, None, rc))
    IN  IF rc = "raise"
        THEN [success |-> FALSE, error |-> "raised", ops |-> ops, exe |-> ran]
        ELSE IF rc = "ok"
        THEN [success |-> TRUE, error |-> None, ops |-> ops, exe |-> ran]
        ELSE IF \E k \in 1..Len(BenignStderr) : Contains(Lower(stderr), BenignStderr[k])
        THEN [success |-> TRUE, error |-> None, ops |-> ops, exe |-> ran]
        ELSE [success |-> FALSE, error |-> Strip(stderr), ops |-> ops, exe |-> ran]

\* install_package(package, version, env_path): rc and stderr are what pip answers
install_package(en, package, version, env, rc, stderr, ops, exe) ==
    LET pip_cmd == Join(<<_pip_path(env), "install", InstallSpec(package, version)>>, " ")
        ran == Append(exe, Cmd(pip_cmd, None, rc))
    IN  IF en
        THEN [success |-> TRUE, error |-> None, exe |-> exe,
              ops |-> log_operation(ops, TRUE,
                        "Would install package: " \o package
                            \o (IF version # None THEN "==" \o version ELSE ""),
                        pip_cmd, <<"Install " \o package \o " in virtual environment">>, None)]
        ELSE IF rc = "raise"
        THEN [success |-> FALSE, error |-> "raised", ops |-> ops, exe |-> ran]
        ELSE IF rc = "ok"
        THEN [success |-> TRUE, error |-> None, ops |-> ops, exe |-> ran]
        ELSE IF \E k \in 1..Len(BenignStderr) : Contains(Lower(stderr), BenignStderr[k])
        THEN [success |-> TRUE, error |-> None, ops |-> ops, exe |-> ran]
        ELSE [success |-> FALSE, error |-> Strip(stderr), ops |-> ops, exe |-> ran]

-----------------------------------------------------------------------------
(* GitManager: remote URL, update decision, artifact cleanup *)

\* s.replace(old, new)
RECURSIVE Replace(_, _, _)
Replace(s, old, new) ==
    LET i == Find(s, old)
    IN  IF i = 0 THEN s
        ELSE SubSeq(s, 1, i - 1) \o new \o Replace(SubSeq(s, i + Len(old), Len(s)), old, new)

\* the rewrite of get_remote_url applied to the SSH shorthand of any host
NormalizeRemote_AnyHost(url) ==
    LET i == Find(url, ":")
    IN  IF StartsWith(url, "git@") /\ i > 5
        THEN "https://" \o SubSeq(url, 5, i - 1) \o "/" \o SubSeq(url, i + 1, Len(url))
        ELSE url

\* the rewrite in get_remote_url
NormalizeRemote(url) ==
    IF StartsWith(url, "git@github.com:")
    THEN Replace(url, "git@github.com:", "https://github.com/") ELSE url

\* get_remote_url outside dry-run: the answer of `git remote get-url origin`
\* (rc: how the command ended, stdout: what it printed)
get_remote_url(rc, stdout) ==
    IF rc = "ok" THEN NormalizeRemote(Strip(stdout)) ELSE None

\* remote URLs: four forms, four hosts, three paths
RemoteHosts == {"github.com", "gitlab.com", "bitbucket.org", "git.example.org"}
RemotePaths == {"user/repo.git", "org/x", "x.git"}
RemoteUrls ==
    UNION {{"git@" \o h \o ":" \o q, "https://" \o h \o "/" \o q,
            "ssh://git@" \o h \o "/" \o q, "git://" \o h \o "/" \o q} :
           h \in RemoteHosts, q \in RemotePaths}

\* the placeholder URL of get_remote_url in dry-run
PlaceholderUrl(name) == "https://github.com/test/" \o name \o ".git"

\* `if not is_clean or "up to date" not in status_msg.lower()` of the dry-run branch
DryRunReports(st) == ~st.is_clean \/ ~Contains(Lower(st.status_msg), "up to date")

\* update_repository with the cleanup gated on the flag alone
UpdateBranch_CleanupWhenFlagged(st) ==
    IF st.was_cleaned_by_filtering THEN "cleanup"
    ELSE IF st.is_clean THEN "recheck" ELSE "fetch"

\* where update_repository goes after the first classification (execute mode)
UpdateBranch(st) ==
    IF st.is_clean
    THEN (IF st.was_cleaned_by_filtering THEN "cleanup" ELSE "recheck")
    ELSE "fetch"

\* the re-check gate skipped
RecheckAborts_Never(after) == FALSE

\* `if not is_clean_after: return False, "Repository not clean: ..."`
RecheckAborts(after) == ~after.is_clean

\* rglob's match of one name against an ignore pattern ("*.pyc", "build")
GlobName(name, pat) ==
    IF StartsWith(pat, "*") THEN EndsWith(name, SubSeq(pat, 2, Len(pat))) /\ Len(name) >= Len(pat) - 1
    ELSE name = pat

\* whether the cleanup loop removes an untracked entry (a directory ends in "/")
CleanupRemoves(entry) ==
    \E k \in 1..Len(PYTHON_IGNORE_PATTERNS) :
        LET pattern == PYTHON_IGNORE_PATTERNS[k]
        IN  IF EndsWith(pattern, "/")
            THEN EndsWith(entry, "/") /\ GlobName(BaseName(entry), RStripChar(pattern, "/"))
            ELSE ~EndsWith(entry, "/") /\ GlobName(BaseName(entry), pattern)

\* `git checkout -- .` on one porcelain line: the working-tree change goes
CheckoutLine(line) ==
    IF SubSeq(line, 2, 2) \in {"M", "D"}
    THEN (IF SubSeq(line, 1, 1) = " " THEN "" ELSE SubSeq(line, 1, 1) \o " " \o SubSeq(line, 3, Len(line)))
    ELSE line

\* the porcelain lines of a status output, as git wrote them
PorcelainLines(stdout) == SelectSeq(Split(stdout, "\n"), LAMBDA l : l # "")

UntrackedEntry(line) == SubSeq(line, 4, Len(line))

\* the status output after `git checkout -- .` alone (ls-files failed: nothing deleted)
StatusAfterCheckout(stdout) ==
    LET kept == SelectSeq([i \in 1..Len(PorcelainLines(stdout)) |-> CheckoutLine(PorcelainLines(stdout)[i])],
                          LAMBDA l : l # "")
    IN  Join([i \in 1..Len(kept) |-> kept[i] \o "\n"], "")

\* ... and after the deletions of untracked artifacts
StatusAfterCleanup(stdout) ==
    LET kept == SelectSeq(PorcelainLines(StatusAfterCheckout(stdout)),
                          LAMBDA l : ~(StartsWith(l, "??") /\ CleanupRemoves(UntrackedEntry(l))))
    IN  Join([i \in 1..Len(kept) |-> kept[i] \o "\n"], "")

\* the untracked entries the cleanup removes: those git status lists and those
\* .gitignore hides from it
CleanupDeletes(tree) ==
    {UntrackedEntry(PorcelainLines(StatusAfterCheckout(tree.status))[i]) :
        i \in {j \in 1..Len(PorcelainLines(StatusAfterCheckout(tree.status))) :
                 /\ StartsWith(PorcelainLines(StatusAfterCheckout(tree.status))[j], "??")
                 /\ CleanupRemoves(UntrackedEntry(PorcelainLines(StatusAfterCheckout(tree.status))[j]))}}
    \cup {e \in tree.artifacts : CleanupRemoves(e)}

\* how `git ls-files` prints a path (core.quotePath, the default): a path with a
\* byte above 0x7f is put in double quotes with that character as octal escapes
QuoteChar(c) ==
    IF c = "é" THEN "\\303\\251" ELSE IF c = "ï" THEN "\\303\\257" ELSE c
RECURSIVE QuoteChars(_)
QuoteChars(f) ==
    IF Len(f) = 0 THEN "" ELSE QuoteChar(SubSeq(f, 1, 1)) \o QuoteChars(SubSeq(f, 2, Len(f)))
QuotePath(f) == IF QuoteChars(f) = f THEN f ELSE "\"" \o QuoteChars(f) \o "\""

\* the files a checkout may hold, in the order ls-files lists them
FileSamples ==
    <<"build/café.txt", "build/out.o", "dist/keep.js", "lib/naïve.so", "lib/plain.so",
      "src/__pycache__/m.pyc", "src/app.py">>

\* stdout of `git ls-files` for a set of tracked files
LsFiles(tracked) ==
    LET listed == SelectSeq(FileSamples, LAMBDA f : f \in tracked)
    IN  Join([i \in 1..Len(listed) |-> QuotePath(listed[i]) \o "\n"], "")

\* the directories above a file, as paths relative to the checkout
RECURSIVE DirsAbove(_, _)
DirsAbove(f, from) ==
    LET i == Find(SubSeq(f, from, Len(f)), "/")
    IN  IF i = 0 THEN {}
        ELSE {SubSeq(f, 1, from + i - 2)} \cup DirsAbove(f, from + i)

\* tracked_files as the loop over the ls-files output builds it
TrackedFiles(stdout) ==
    LET lines == SelectSeq(Split(Strip(stdout), "\n"), LAMBDA l : l # "")
    IN  Range(lines) \cup {Replace(lines[i], "/", "\\") : i \in 1..Len(lines)}

\* _clean_python_artifacts after `git checkout -- .`, outside dry-run: the files
\* it deletes (rc, stdout: how `git ls-files` ended and what it printed)
_clean_python_artifacts(files, rc, stdout) ==
    IF rc # "ok" THEN {}
    ELSE LET tracked_files == TrackedFiles(stdout)
             dir_paths == UNION {DirsAbove(f, 1) : f \in files}
             has_tracked_files(dir_path) ==
                 \E f \in files : StartsWith(f, dir_path \o "/") /\ f \in tracked_files
         IN  {f \in files :
                \E k \in 1..Len(PYTHON_IGNORE_PATTERNS) :
                    LET pattern == PYTHON_IGNORE_PATTERNS[k]
                    IN  IF EndsWith(pattern, "/")
                        THEN \E dir_path \in dir_paths :
                                /\ GlobName(BaseName(dir_path), RStripChar(pattern, "/"))
                                /\ StartsWith(f, dir_path \o "/")
                                /\ ~has_tracked_files(dir_path)
                        ELSE GlobName(BaseName(f), pattern) /\ f \notin tracked_files}

-----------------------------------------------------------------------------
(* The run: SubprojectManager.run() over the discovered subprojects *)

MaxSubprojects == 2
MaxDisturbances == 1

\* a checkout as git sees it: the answers to rev-parse, status, cherry and
\* remote get-url, and the artifacts .gitignore hides from status
Tree(is_repo, status, cherry, remote, artifacts) ==
    [is_repo |-> is_repo, status |-> status, cherry |-> cherry, remote |-> remote,
     artifacts |-> artifacts]

\* SubprojectManager.root_path, handed to TestModeManager
RootPath == "/ws"

\* what discovery may hand to the run, in discovery order
Discovered ==
    << [info |-> SubprojectInfo("/ws/alpha", "alpha", <<"requests==2.28.0", "numpy">>),
        tree |-> Tree(TRUE, "", "", "git@github.com:org/alpha.git\n", {"__pycache__/"})],
       [info |-> SubprojectInfo("/ws/beta", "beta", <<"# pinned", "requests==2.31.0">>),
        tree |-> Tree(TRUE, "?? __pycache__/\n", "", "https://github.com/org/beta.git\n", {})],
       [info |-> SubprojectInfo("/ws/gamma", "gamma", <<>>),
        tree |-> Tree(TRUE, "?? notes.txt\n?? build/\n", "", "", {})],
       [info |-> SubprojectInfo("/ws/libs/delta", "delta", <<"flask>=2.0">>),
        tree |-> Tree(FALSE, "", "", "", {})],
       [info |-> SubprojectInfo("/ws/epsilon", "epsilon", <<"numpy">>),
        tree |-> Tree(TRUE, "", "+ 1a2b3c4 local commit\n", "git@github.com:org/epsilon.git\n", {"dist/"})] >>

IgnoreSets == {{}, {"gamma"}}

\* what someone else may leave in a checkout while the run is going
EditSamples == {" M src/app.py\n", ""}

PullOutputs == {"Already up to date.\n", "Updating 1a2b3c4..5d6e7f8\nFast-forward\n"}
GitStderr == "fatal: unable to access the remote\n"
PipStderrs == {"Requirement already satisfied: pkg\n", "ERROR: No matching distribution found\n"}
CommitDate == "2024-05-01T12:00:00+00:00"

\* how an external command may end: failures and foreign edits are bounded.
\* Queries end "ok" or "fail"; the mutating commands may also raise.
Queries == IF disturbed < MaxDisturbances THEN {"ok", "fail"} ELSE {"ok"}
Outcomes == IF disturbed < MaxDisturbances THEN {"ok", "fail", "raise"} ELSE {"ok"}
Cost(rc) == IF rc = "ok" THEN 0 ELSE 1

\* the log of commands that ended otherwise than with status zero
Faulted(cmd, rc, stderr) ==
    IF rc = "ok" THEN faults
    ELSE Append(faults, [sp |-> cur, cmd |-> cmd, rc |-> rc, stderr |-> stderr])

InitLoc == [first |-> NoResult, recheck |-> NoResult, mark |-> 0, opmark |-> 0,
            pkg |-> 1, failed_packages |-> <<>>]

Sub == subprojects[cur]

\* how `git status` ends in the current directory: outside a checkout it ends
\* non-zero whatever else happens (dry-run alone gets that far)
StatusRc(rc) == IF worktree[cur].is_repo THEN rc ELSE "fail"

\* get_git_status(path) in the current checkout: the commands it runs
StatusCmds(rc, st) ==
    <<Cmd("git status --porcelain", Sub.path, StatusRc(rc))>>
        \o (IF st.ran_cherry THEN <<Cmd("git cherry -v", Sub.path, "ok")>> ELSE <<>>)

StatusHere(rc) == get_git_status(StatusRc(rc), worktree[cur].status, worktree[cur].cherry)

InitRun ==
    /\ enabled \in BOOLEAN
    /\ git_only \in BOOLEAN
    /\ ignored_subprojects \in IgnoreSets
    /\ \E a \in 1..Len(Discovered), n \in 0..MaxSubprojects :
          /\ a + n - 1 <= Len(Discovered)
          /\ n = 0 => a = 1
          /\ subprojects = [i \in 1..n |-> Discovered[a + i - 1].info]
          /\ worktree = [i \in 1..n |-> Discovered[a + i - 1].tree]
    /\ operations = <<>>
    /\ summary = NoResult
    /\ executed = <<>>
    /\ deleted = {}
    /\ pc = "loop"
    /\ cur = 1
    /\ loc = InitLoc
    /\ updates = <<>>
    /\ disturbed = 0
    /\ faults = <<>>
    /\ AuxIdle
    /\ st_stdout = "" /\ st_rc = "ok" /\ st_cherry = "" /\ st_result = NoResult

\* the for loop's head without the test of ignored_subprojects
LoopHead_NoIgnore ==
    /\ pc = "loop"
    /\ IF cur > Len(subprojects)
       THEN pc' = "summary" /\ UNCHANGED cur
       ELSE pc' = "is_git_repo" /\ UNCHANGED cur
    /\ UNCHANGED <<auxVars, statusVars, logVars, enabled, git_only, ignored_subprojects, subprojects,
                   worktree, executed, deleted, loc, updates, disturbed, faults>>

\* process_subprojects: the for loop's head
LoopHead ==
    /\ pc = "loop"
    /\ IF cur > Len(subprojects)
       THEN pc' = "summary" /\ UNCHANGED cur
       ELSE IF Sub.name \in ignored_subprojects
       THEN cur' = cur + 1 /\ UNCHANGED pc
       ELSE pc' = "is_git_repo" /\ UNCHANGED cur
    /\ UNCHANGED <<auxVars, statusVars, logVars, enabled, git_only, ignored_subprojects, subprojects,
                   worktree, executed, deleted, loc, updates, disturbed, faults>>

\* is_git_repo
IsGitRepo ==
    /\ pc = "is_git_repo"
    /\ IF enabled
       THEN /\ operations' = log_operation(operations, TRUE,
                                "Checking if " \o Sub.path \o " is a Git repository",
                                "git rev-parse --is-inside-work-tree", <<>>, None)
            /\ pc' = "get_remote_url"
            /\ UNCHANGED <<executed, disturbed, faults>>
       ELSE \E rc \in Queries :
            /\ executed' = Append(executed, Cmd("git rev-parse --is-inside-work-tree", Sub.path, rc))
            /\ disturbed' = disturbed + Cost(rc)
            /\ faults' = Faulted("git rev-parse --is-inside-work-tree", rc, "")
            /\ pc' = IF rc = "ok" /\ worktree[cur].is_repo THEN "get_remote_url" ELSE "pip"
            /\ UNCHANGED operations
    /\ UNCHANGED <<auxVars, statusVars, summary, enabled, git_only, ignored_subprojects, subprojects,
                   worktree, deleted, cur, loc, updates>>

\* get_remote_url and `if github_url: subproject.github_url = github_url`
GetRemoteUrl ==
    /\ pc = "get_remote_url"
    /\ IF enabled
       THEN /\ operations' = log_operation(operations, TRUE,
                                "Getting remote URL for " \o Sub.path,
                                "git remote get-url origin", <<>>, None)
            /\ subprojects' = [subprojects EXCEPT ![cur].github_url = PlaceholderUrl(Sub.name)]
            /\ UNCHANGED <<executed, disturbed, faults>>
       ELSE \E rc \in Queries :
            LET found == rc = "ok" /\ worktree[cur].remote # ""
                url == NormalizeRemote(Strip(worktree[cur].remote))
            IN  /\ executed' = Append(executed, Cmd("git remote get-url origin", Sub.path,
                                                    IF found THEN "ok" ELSE IF rc = "ok" THEN "fail" ELSE rc))
                /\ disturbed' = disturbed + Cost(rc)
                /\ faults' = Faulted("git remote get-url origin", IF found THEN "ok" ELSE IF rc = "ok" THEN "fail" ELSE rc, "")
                /\ subprojects' = IF found /\ url # ""
                                  THEN [subprojects EXCEPT ![cur].github_url = url]
                                  ELSE subprojects
                /\ UNCHANGED operations
    /\ pc' = "status"
    /\ UNCHANGED <<auxVars, statusVars, summary, enabled, git_only, ignored_subprojects,
                   worktree, deleted, cur, loc, updates>>

\* process_subproject: get_git_status and the "Git status: ..." record
OrchStatus ==
    /\ pc = "status"
    /\ \E rc \in Queries :
         LET st == StatusHere(rc)
         IN  /\ ~worktree[cur].is_repo => rc = "ok"
             /\ executed' = executed \o StatusCmds(rc, st)
             /\ disturbed' = disturbed + Cost(rc)
             /\ faults' = Faulted("git status --porcelain", StatusRc(rc), "")
             /\ operations' = log_operation(operations, TRUE, "Git status: " \o st.status_msg,
                                            None, <<>>, Sub.name)
    /\ pc' = "update"
    /\ UNCHANGED <<auxVars, statusVars, summary, enabled, git_only, ignored_subprojects, subprojects,
                   worktree, deleted, cur, loc, updates>>

\* the return from update_repository with the `return` of the failure branch left out
ReturnFromUpdate_NoReturn(success, message, ops, exe, recheck) ==
    /\ updates' = Append(updates,
                      [sp |-> cur, first |-> loc.first, recheck |-> recheck,
                       cmds |-> SubSeq(exe, loc.mark + 1, Len(exe)),
                       success |-> success, message |-> message])
    /\ IF ~success
       THEN /\ operations' = log_operation(ops, FALSE, "Git update failed: " \o message,
                                           None, <<>>, Sub.name)
            /\ subprojects' = [subprojects EXCEPT ![cur].error = "Git update failed: " \o message]
            /\ pc' = "commit_date"
            /\ loc' = InitLoc
            /\ UNCHANGED cur
       ELSE /\ operations' = log_operation(ops, TRUE,
                                IF ~Contains(Lower(message), "up to date")
                                THEN message ELSE "Repository up to date",
                                None, <<>>, Sub.name)
            /\ pc' = "commit_date"
            /\ loc' = InitLoc
            /\ UNCHANGED <<subprojects, cur>>

\* the return from update_repository with `subproject.error = ...` left out
ReturnFromUpdate_ErrorUnset(success, message, ops, exe, recheck) ==
    /\ updates' = Append(updates,
                      [sp |-> cur, first |-> loc.first, recheck |-> recheck,
                       cmds |-> SubSeq(exe, loc.mark + 1, Len(exe)),
                       success |-> success, message |-> message])
    /\ IF ~success
       THEN /\ operations' = log_operation(ops, FALSE, "Git update failed: " \o message,
                                           None, <<>>, Sub.name)
            /\ pc' = "loop"
            /\ cur' = cur + 1
            /\ loc' = InitLoc
            /\ UNCHANGED subprojects
       ELSE /\ operations' = log_operation(ops, TRUE,
                                IF ~Contains(Lower(message), "up to date")
                                THEN message ELSE "Repository up to date",
                                None, <<>>, Sub.name)
            /\ pc' = "commit_date"
            /\ loc' = InitLoc
            /\ UNCHANGED <<subprojects, cur>>

\* process_subproject, from update_repository's return to the commit date:
\* the failure record and early return, or the success record
ReturnFromUpdate(success, message, ops, exe, recheck) ==
    /\ updates' = Append(updates,
                      [sp |-> cur, first |-> loc.first, recheck |-> recheck,
                       cmds |-> SubSeq(exe, loc.mark + 1, Len(exe)),
                       success |-> success, message |-> message])
    /\ IF ~success
       THEN /\ operations' = log_operation(ops, FALSE, "Git update failed: " \o message,
                                           None, <<>>, Sub.name)
            /\ subprojects' = [subprojects EXCEPT ![cur].error = "Git update failed: " \o message]
            /\ pc' = "loop"
            /\ cur' = cur + 1
            /\ loc' = InitLoc
       ELSE /\ operations' = log_operation(ops, TRUE,
                                IF ~Contains(Lower(message), "up to date")
                                THEN message ELSE "Repository up to date",
                                None, <<>>, Sub.name)
            /\ pc' = "commit_date"
            /\ loc' = InitLoc
            /\ UNCHANGED <<subprojects, cur>>

\* update_repository: the first get_git_status; in dry-run the whole call
UpdateStatus ==
    /\ pc = "update"
    /\ \E rc \in Queries :
         LET st == StatusHere(rc)
             exe == executed \o StatusCmds(rc, st)
             operation == IF st.is_clean THEN "pull" ELSE "fetch"
         IN  /\ ~worktree[cur].is_repo => rc = "ok"
             /\ executed' = exe
             /\ disturbed' = disturbed + Cost(rc)
             /\ faults' = Faulted("git status --porcelain", StatusRc(rc), "")
             /\ IF enabled
                THEN IF DryRunReports(st)
                     THEN ReturnFromUpdate(TRUE, "Would " \o operation \o " changes",
                              log_operation(operations, TRUE,
                                  "Would " \o operation \o " changes for " \o Sub.path,
                                  "git " \o operation,
                                  <<"Update repository at " \o Sub.path>>, None),
                              exe, NoResult)
                     ELSE ReturnFromUpdate(TRUE, "Repository up to date", operations, exe, NoResult)
                ELSE /\ loc' = [loc EXCEPT !.first = st, !.mark = Len(exe)]
                     /\ pc' = UpdateBranch(st)
                     /\ UNCHANGED <<operations, subprojects, cur, updates>>
    /\ UNCHANGED <<auxVars, statusVars, summary, enabled, git_only, ignored_subprojects,
                   worktree, deleted>>

\* _clean_python_artifacts (reached in execute mode only)
Cleanup ==
    /\ pc = "cleanup"
    /\ \E rc \in Queries :
         /\ executed' = executed \o <<Cmd("git checkout -- .", Sub.path, "ok"),
                                      Cmd("git ls-files", Sub.path, rc)>>
         /\ disturbed' = disturbed + Cost(rc)
         /\ faults' = Faulted("git ls-files", rc, "")
         /\ IF rc = "ok"
            THEN /\ deleted' = deleted \cup {Sub.path \o "/" \o e : e \in CleanupDeletes(worktree[cur])}
                 /\ worktree' = [worktree EXCEPT
                                   ![cur].status = StatusAfterCleanup(worktree[cur].status),
                                   ![cur].artifacts = {e \in worktree[cur].artifacts : ~CleanupRemoves(e)}]
            ELSE /\ worktree' = [worktree EXCEPT
                                   ![cur].status = StatusAfterCheckout(worktree[cur].status)]
                 /\ UNCHANGED deleted
    /\ pc' = "recheck"
    /\ UNCHANGED <<auxVars, statusVars, logVars, enabled, git_only, ignored_subprojects, subprojects,
                   cur, loc, updates>>

\* update_repository: the status re-check before the pull
Recheck ==
    /\ pc = "recheck"
    /\ \E rc \in Queries :
         LET after == StatusHere(rc)
             exe == executed \o StatusCmds(rc, after)
         IN  /\ executed' = exe
             /\ disturbed' = disturbed + Cost(rc)
             /\ faults' = Faulted("git status --porcelain", rc, "")
             /\ IF RecheckAborts(after)
                THEN ReturnFromUpdate(FALSE, "Repository not clean: " \o after.status_msg,
                                      operations, exe, after)
                ELSE /\ loc' = [loc EXCEPT !.recheck = after]
                     /\ pc' = "pull"
                     /\ UNCHANGED <<operations, subprojects, cur, updates>>
    /\ UNCHANGED <<auxVars, statusVars, summary, enabled, git_only, ignored_subprojects,
                   worktree, deleted>>

\* update_repository: git pull and its three outcomes
Pull ==
    /\ pc = "pull"
    /\ \E rc \in Outcomes, out \in PullOutputs :
         LET exe == Append(executed, Cmd("git pull", Sub.path, rc))
             changes == Strip(out)
         IN  /\ executed' = exe
             /\ disturbed' = disturbed + Cost(rc)
             /\ faults' = Faulted("git pull", rc, GitStderr)
             /\ rc # "ok" => out = CHOOSE o \in PullOutputs : TRUE
             /\ IF rc = "raise"
                THEN ReturnFromUpdate(FALSE, "Error updating repository: raised",
                                      operations, exe, loc.recheck)
                ELSE IF rc = "ok"
                THEN ReturnFromUpdate(TRUE,
                         IF changes # "" THEN "Pulled changes: " \o changes
                         ELSE "Repository up to date", operations, exe, loc.recheck)
                ELSE ReturnFromUpdate(FALSE, "Failed to pull changes: " \o Strip(GitStderr),
                                      operations, exe, loc.recheck)
    /\ UNCHANGED <<auxVars, statusVars, summary, enabled, git_only, ignored_subprojects,
                   worktree, deleted>>

\* update_repository: git fetch, for a repository that is not clean
Fetch ==
    /\ pc = "fetch"
    /\ \E rc \in Outcomes :
         LET exe == Append(executed, Cmd("git fetch", Sub.path, rc))
         IN  /\ executed' = exe
             /\ disturbed' = disturbed + Cost(rc)
             /\ faults' = Faulted("git fetch", rc, GitStderr)
             /\ IF rc = "raise"
                THEN ReturnFromUpdate(FALSE, "Error updating repository: raised",
                                      operations, exe, NoResult)
                ELSE IF rc = "ok"
                THEN ReturnFromUpdate(TRUE, "Fetched changes (repository not clean)",
                                      operations, exe, NoResult)
                ELSE ReturnFromUpdate(FALSE, "Failed to fetch changes: " \o Strip(GitStderr),
                                      operations, exe, NoResult)
    /\ UNCHANGED <<auxVars, statusVars, summary, enabled, git_only, ignored_subprojects,
                   worktree, deleted>>

\* GitHubCommitChecker.get_last_commit_date, then the --git-only return
LastCommit ==
    /\ pc = "commit_date"
    /\ \E rc \in Queries :
         /\ executed' = Append(executed, Cmd("git log -1 --format=%cI", Sub.path, rc))
         /\ disturbed' = disturbed + Cost(rc)
         /\ faults' = Faulted("git log -1 --format=%cI", rc, "")
         /\ subprojects' = IF rc = "ok"
                           THEN [subprojects EXCEPT ![cur].last_commit_date = CommitDate]
                           ELSE subprojects
    /\ pc' = "pip"
    /\ UNCHANGED <<auxVars, statusVars, logVars, enabled, git_only, ignored_subprojects,
                   worktree, deleted, cur, loc, updates>>

\* `if self.git_only: return`
PipGate ==
    /\ pc = "pip"
    /\ IF git_only
       THEN pc' = "loop" /\ cur' = cur + 1 /\ loc' = InitLoc
       ELSE /\ pc' = "install"
            /\ loc' = [InitLoc EXCEPT !.mark = Len(executed), !.opmark = Len(operations)]
            /\ UNCHANGED cur
    /\ UNCHANGED <<auxVars, statusVars, logVars, enabled, git_only, ignored_subprojects, subprojects,
                   worktree, executed, deleted, updates, disturbed, faults>>

\* version_str = str(package.version) if package.version else None
VersionArg(package) ==
    IF package.version # NoVersion THEN VersionStr(package.version) ELSE None

\* one turn of the install loop: install_package and its record
Install ==
    /\ pc = "install"
    /\ loc.pkg <= Len(Sub.requirements)
    /\ \E rc \in Outcomes, stderr \in PipStderrs :
         LET package_name == Sub.requirements[loc.pkg].key
             package == Sub.requirements[loc.pkg].value
             r == install_package(enabled, package_name, VersionArg(package), env_path,
                                  rc, stderr, operations, executed)
         IN  /\ (enabled \/ rc # "fail") => stderr = CHOOSE e \in PipStderrs : TRUE
             /\ enabled => rc = "ok"
             /\ executed' = r.exe
             /\ disturbed' = disturbed + Cost(rc)
             /\ faults' = Faulted(r.exe[Len(r.exe)].cmd, rc, stderr)
             /\ IF r.success
                THEN /\ operations' = log_operation(r.ops, TRUE, "Installed " \o PackageStr(package),
                                                    None, <<>>, Sub.name)
                     /\ loc' = [loc EXCEPT !.pkg = @ + 1]
                ELSE /\ operations' = log_operation(r.ops, FALSE,
                                          "Failed to install " \o PackageStr(package) \o ": " \o r.error,
                                          None, <<>>, Sub.name)
                     /\ loc' = [loc EXCEPT !.pkg = @ + 1,
                                           !.failed_packages = Append(@, PackageStr(package))]
    /\ UNCHANGED <<auxVars, statusVars, summary, enabled, git_only, ignored_subprojects, subprojects,
                   worktree, deleted, pc, cur, updates>>

\* the end of process_subproject, with the loop starting over at the first subproject
FinishSubproject_Restart ==
    /\ pc = "install"
    /\ loc.pkg > Len(Sub.requirements)
    /\ subprojects' = IF Len(loc.failed_packages) > 0
                      THEN [subprojects EXCEPT ![cur].error =
                               "Failed to install packages: " \o Join(loc.failed_packages, ", ")]
                      ELSE subprojects
    /\ pc' = "loop"
    /\ cur' = 1
    /\ loc' = InitLoc
    /\ UNCHANGED <<auxVars, statusVars, logVars, enabled, git_only, ignored_subprojects,
                   worktree, executed, deleted, updates, disturbed, faults>>

\* after the loop: `if failed_packages: subproject.error = ...`
FinishSubproject ==
    /\ pc = "install"
    /\ loc.pkg > Len(Sub.requirements)
    /\ subprojects' = IF Len(loc.failed_packages) > 0
                      THEN [subprojects EXCEPT ![cur].error =
                               "Failed to install packages: " \o Join(loc.failed_packages, ", ")]
                      ELSE subprojects
    /\ pc' = "loop"
    /\ cur' = cur + 1
    /\ loc' = InitLoc
    /\ UNCHANGED <<auxVars, statusVars, logVars, enabled, git_only, ignored_subprojects,
                   worktree, executed, deleted, updates, disturbed, faults>>

\* run(): print(self.test_mode.get_summary())
Summarize ==
    /\ pc = "summary"
    /\ summary' = get_summary(operations, subprojects, RootPath)
    /\ pc' = "done"
    /\ UNCHANGED <<auxVars, statusVars, operations, enabled, git_only, ignored_subprojects, subprojects,
                   worktree, executed, deleted, cur, loc, updates, disturbed, faults>>

\* someone else changes the checkout being reconciled, between two status queries
WorktreeEdit ==
    /\ pc \in {"update", "cleanup", "recheck"}
    /\ disturbed < MaxDisturbances
    /\ \E status \in EditSamples :
         /\ status # worktree[cur].status
         /\ worktree' = [worktree EXCEPT ![cur].status = status]
    /\ disturbed' = disturbed + 1
    /\ UNCHANGED faults
    /\ UNCHANGED <<auxVars, statusVars, logVars, enabled, git_only, ignored_subprojects, subprojects,
                   executed, deleted, pc, cur, loc, updates>>

Next ==
    \/ LoopHead \/ IsGitRepo \/ GetRemoteUrl \/ OrchStatus \/ UpdateStatus
    \/ Cleanup \/ Recheck \/ Pull \/ Fetch \/ LastCommit \/ PipGate \/ Install
    \/ FinishSubproject \/ Summarize \/ WorktreeEdit

Spec == InitRun /\ [][Next]_vars

-----------------------------------------------------------------------------
(* The run over two directories of one name: path.name is all the name there is *)

\* two checkouts at different paths whose directories are both called core
Twins ==
    << [info |-> SubprojectInfo("/ws/app/core", "core", <<"requests==2.28.0">>),
        tree |-> Tree(TRUE, "?? __pycache__/\n", "", "git@github.com:org/app-core.git\n",
                      {"__pycache__/"})],
       [info |-> SubprojectInfo("/ws/lib/core", "core", <<"numpy">>),
        tree |-> Tree(TRUE, "?? notes.txt\n", "", "", {})] >>

InitTwins ==
    /\ enabled \in BOOLEAN
    /\ git_only \in BOOLEAN
    /\ ignored_subprojects = {}
    /\ subprojects = [i \in 1..Len(Twins) |-> Twins[i].info]
    /\ worktree = [i \in 1..Len(Twins) |-> Twins[i].tree]
    /\ operations = <<>>
    /\ summary = NoResult
    /\ executed = <<>>
    /\ deleted = {}
    /\ pc = "loop"
    /\ cur = 1
    /\ loc = InitLoc
    /\ updates = <<>>
    /\ disturbed = 0
    /\ faults = <<>>
    /\ AuxIdle
    /\ st_stdout = "" /\ st_rc = "ok" /\ st_cherry = "" /\ st_result = NoResult

SpecTwins == InitTwins /\ [][Next]_vars

-----------------------------------------------------------------------------
(* The other two specifications: the classification and the recorder alone *)

RunIdle ==
    /\ enabled = FALSE /\ git_only = FALSE /\ ignored_subprojects = {}
    /\ subprojects = <<>> /\ worktree = <<>> /\ executed = <<>> /\ deleted = {}
    /\ pc = "idle" /\ cur = 1 /\ loc = InitLoc /\ updates = <<>> /\ disturbed = 0 /\ faults = <<>>

InitStatus ==
    /\ st_stdout \in StatusOutputs
    /\ st_rc \in {"ok", "fail", "raise"}
    /\ st_cherry \in CherrySamples
    /\ st_result = NoResult
    /\ operations = <<>> /\ summary = NoResult
    /\ RunIdle /\ AuxIdle

\* one call of get_git_status
Classify ==
    /\ st_result = NoResult
    /\ st_result' = get_git_status(st_rc, st_stdout, st_cherry)
    /\ UNCHANGED <<auxVars, st_stdout, st_rc, st_cherry, logVars, runVars>>

NextStatus == Classify

SpecStatus == InitStatus /\ [][NextStatus]_vars

InitRecorder ==
    /\ operations = <<>>
    /\ summary = NoResult
    /\ st_stdout = "" /\ st_rc = "ok" /\ st_cherry = "" /\ st_result = NoResult
    /\ RunIdle /\ AuxIdle

\* one call of log_operation
Record ==
    /\ Len(operations) < MaxOps
    /\ \E r \in RecordSamples :
         operations' = log_operation(operations, r.success, r.message, r.command,
                                     r.changes, r.project_name)
    /\ summary' = NoResult
    /\ UNCHANGED <<auxVars, statusVars, runVars>>

\* one call of get_summary
SummarizeLog ==
    /\ summary = NoResult
    /\ summary' = get_summary(operations, subprojects, None)
    /\ UNCHANGED <<auxVars, operations, statusVars, runVars>>

NextRecorder == Record \/ SummarizeLog

SpecRecorder == InitRecorder /\ [][NextRecorder]_vars

-----------------------------------------------------------------------------
(* SubprojectFinder: discovery.  A path is the tuple of its segments (Path.parts);
   a directory below the root is known by its segments relative to the root. *)

MaxDepthArg == 3

\* str(path)
PathStr(parts) ==
    IF Len(parts) = 0 THEN "."
    ELSE IF parts[1] = "/" THEN "/" \o Join(Tail(parts), "/")
    ELSE Join(parts, "/")

\* a directory: whether it holds a `.git` entry (a directory, or a file as in a
\* linked worktree) and a requirements.txt with these lines
Dir(rel, git, req, manifest) == [rel |-> rel, git |-> git, req |-> req, manifest |-> manifest]

\* `any(part.startswith(".") for part in path.parts)`
HasDotPart(parts) == \E k \in 1..Len(parts) : StartsWith(parts[k], ".")

\* (parent / "requirements.txt").exists() or (parent / ".git").is_dir()
IsMarked(rel, tree) ==
    \E k \in 1..Len(tree) : tree[k].rel = rel /\ (tree[k].req \/ tree[k].git = "dir")

\* _create_subproject returning None
NoSubproject == [skipped |-> TRUE]

\* the loop over path.parents, nearest first, up to the root, for a path below the
\* root: the relative path of the first marked ancestor, or <<>> (the root is never
\* one) when there is none
RECURSIVE NearestMarkedParent(_, _)
NearestMarkedParent(rel, tree) ==
    IF Len(rel) <= 1 THEN <<>>
    ELSE LET parent == SubSeq(rel, 1, Len(rel) - 1)
         IN  IF IsMarked(parent, tree) THEN parent ELSE NearestMarkedParent(parent, tree)

\* _create_subproject with the depth test left out
_create_subproject_AnyDepth(d, root, maxd, with_requirements, tree, above) ==
    IF HasDotPart(root \o d.rel) THEN NoSubproject
    ELSE LET parent == NearestMarkedParent(d.rel, tree)
             path == root \o d.rel
         IN  [path |-> PathStr(path), name |-> path[Len(path)],
              requirements_file |-> IF with_requirements
                                    THEN PathStr(path \o <<"requirements.txt">>) ELSE None,
              requirements |-> IF with_requirements
                               THEN _parse_requirements(d.manifest, 1, <<>>) ELSE <<>>,
              github_url |-> None, last_commit_date |-> None, error |-> None,
              depth |-> Len(d.rel),
              parent_path |-> IF Len(d.rel) = 0
                              THEN (IF above THEN PathStr(SubSeq(root, 1, Len(root) - 1)) ELSE None)
                              ELSE IF parent = <<>> THEN None ELSE PathStr(root \o parent),
              is_nested |-> IF Len(d.rel) = 0 THEN above ELSE parent # <<>>]

\* _create_subproject(path, root_path, max_depth, requirements_file): the
\* SubprojectInfo, or None when the path is to be skipped. For the root itself the
\* loop over path.parents never meets root_path and goes on above it (above: the
\* directory above the root is marked).
_create_subproject(d, root, maxd, with_requirements, tree, above) ==
    IF HasDotPart(root \o d.rel) THEN NoSubproject
    ELSE LET depth == Len(d.rel)
         IN  IF depth > maxd THEN NoSubproject
             ELSE _create_subproject_AnyDepth(d, root, maxd, with_requirements, tree, above)

\* the search roots: a plain one and one below a dot-prefixed directory
Roots == {<<"/", "ws">>, <<"/", "home", ".config", "ws">>}

\* the directories of the sample trees and what each may hold
DirShapes ==
    << {Dir(<<>>, "no", FALSE, <<>>), Dir(<<>>, "dir", TRUE, <<"requests==2.28.0">>)},
       {Dir(<<"a">>, "no", FALSE, <<>>), Dir(<<"a">>, "no", TRUE, <<"x">>),
        Dir(<<"a">>, "dir", FALSE, <<>>), Dir(<<"a">>, "dir", TRUE, <<"# c", "x==1.0", "y">>),
        Dir(<<"a">>, "file", FALSE, <<>>)},
       {Dir(<<"a", "b">>, "no", FALSE, <<>>), Dir(<<"a", "b">>, "no", TRUE, <<"y">>),
        Dir(<<"a", "b">>, "dir", TRUE, <<"y>=2.0">>)},
       {Dir(<<"a", "b", "c">>, "no", FALSE, <<>>), Dir(<<"a", "b", "c">>, "no", TRUE, <<"z">>)},
       {Dir(<<"a", "b", "c", "d">>, "no", FALSE, <<>>), Dir(<<"a", "b", "c", "d">>, "dir", FALSE, <<>>)},
       {Dir(<<".hidden">>, "no", FALSE, <<>>), Dir(<<".hidden">>, "dir", TRUE, <<"x">>)} >>

\* every tree made of one shape per directory, in the order rglob walks them
RECURSIVE TreesFrom(_)
TreesFrom(k) ==
    IF k > Len(DirShapes) THEN {<<>>}
    ELSE {<<d>> \o rest : d \in DirShapes[k], rest \in TreesFrom(k + 1)}
Trees == TreesFrom(1)

InitFinder ==
    /\ root_path \in Roots
    /\ max_depth \in 0..MaxDepthArg
    /\ above_marked \in BOOLEAN
    /\ dirs \in Trees
    /\ found_subprojects = <<>>
    /\ processed_paths = {}
    /\ scan = [loop |-> "git", i |-> 1]
    /\ FnIdle /\ StatusIdle /\ LogIdle /\ RunIdle

\* a turn of either loop without the processed_paths test
Visit_NoDedup(d, with_requirements) ==
    LET subproject_path == PathStr(root_path \o d.rel)
        subproject == _create_subproject(d, root_path, max_depth, with_requirements, dirs, above_marked)
    IN  /\ processed_paths' = processed_paths \cup {subproject_path}
        /\ found_subprojects' = IF subproject # NoSubproject
                                THEN Append(found_subprojects, subproject)
                                ELSE found_subprojects

\* what one turn of either loop does with a subproject_path
Visit(d, with_requirements) ==
    LET subproject_path == PathStr(root_path \o d.rel)
        subproject == _create_subproject(d, root_path, max_depth, with_requirements, dirs, above_marked)
    IN  IF subproject_path \in processed_paths
        THEN UNCHANGED <<found_subprojects, processed_paths>>
        ELSE /\ processed_paths' = processed_paths \cup {subproject_path}
             /\ found_subprojects' = IF subproject # NoSubproject
                                     THEN Append(found_subprojects, subproject)
                                     ELSE found_subprojects

\* for git_dir in root_path.rglob(".git"): one entry of the walk
ScanGit ==
    /\ scan.loop = "git"
    /\ IF scan.i > Len(dirs)
       THEN /\ scan' = [loop |-> "requirements", i |-> 1]
            /\ UNCHANGED <<found_subprojects, processed_paths>>
       ELSE /\ scan' = [scan EXCEPT !.i = @ + 1]
            /\ IF dirs[scan.i].git = "dir"
               THEN Visit(dirs[scan.i], dirs[scan.i].req)
               ELSE UNCHANGED <<found_subprojects, processed_paths>>
    /\ UNCHANGED <<root_path, max_depth, above_marked, dirs, fnVars, statusVars, logVars, runVars>>

\* for req_file in root_path.rglob("requirements.txt"): one entry of the walk
ScanRequirements ==
    /\ scan.loop = "requirements"
    /\ IF scan.i > Len(dirs)
       THEN /\ scan' = [loop |-> "done", i |-> 1]
            /\ UNCHANGED <<found_subprojects, processed_paths>>
       ELSE /\ scan' = [scan EXCEPT !.i = @ + 1]
            /\ IF dirs[scan.i].req
               THEN Visit(dirs[scan.i], TRUE)
               ELSE UNCHANGED <<found_subprojects, processed_paths>>
    /\ UNCHANGED <<root_path, max_depth, above_marked, dirs, fnVars, statusVars, logVars, runVars>>

NextFinder == ScanGit \/ ScanRequirements

SpecFinder == InitFinder /\ [][NextFinder]_vars

-----------------------------------------------------------------------------
(* Version.is_compatible_with, called alone *)

InitCompatible ==
    /\ arg \in [version : [specifier : Range(VersionSpecifier), version : VersionSamples],
                other_version : VersionSamples]
    /\ ret = NoResult
    /\ FinderIdle /\ StatusIdle /\ LogIdle /\ RunIdle

\* one call; nothing is raised to the caller
CallIsCompatible ==
    /\ ret = NoResult
    /\ ret' = [value |-> is_compatible_with(arg.version, arg.other_version), raised |-> FALSE]
    /\ UNCHANGED <<arg, finderVars, statusVars, logVars, runVars>>

NextCompatible == CallIsCompatible

SpecCompatible == InitCompatible /\ [][NextCompatible]_vars

-----------------------------------------------------------------------------
(* VersionComparator.compare_versions, called alone *)

InitComparator ==
    /\ arg \in [main_package : PackageSamples, sub_package : PackageSamples]
    /\ ret = NoResult
    /\ FinderIdle /\ StatusIdle /\ LogIdle /\ RunIdle

\* one call; nothing is raised to the caller
CallCompareVersions ==
    /\ ret = NoResult
    /\ ret' = [value |-> compare_versions(arg.main_package, arg.sub_package), raised |-> FALSE]
    /\ UNCHANGED <<arg, finderVars, statusVars, logVars, runVars>>

NextComparator == CallCompareVersions

SpecComparator == InitComparator /\ [][NextComparator]_vars

-----------------------------------------------------------------------------
(* GitManager.get_remote_url, called alone *)

InitRemote ==
    /\ arg \in [rc : {"ok", "fail", "raise"}, url : RemoteUrls]
    /\ ret = NoResult
    /\ FinderIdle /\ StatusIdle /\ LogIdle /\ RunIdle

\* one call outside dry-run; git prints the URL and a newline
CallGetRemoteUrl ==
    /\ ret = NoResult
    /\ ret' = [value |-> get_remote_url(arg.rc, arg.url \o "\n"), raised |-> FALSE]
    /\ UNCHANGED <<arg, finderVars, statusVars, logVars, runVars>>

NextRemote == CallGetRemoteUrl

SpecRemote == InitRemote /\ [][NextRemote]_vars

-----------------------------------------------------------------------------
(* TestModeManager.get_summary over the records of a run with known subprojects *)

\* the discovered subprojects: with the root itself among them, and with a nested
\* directory of the root's name instead (every record's name is a discovered one)
SummarySubprojects ==
    { << SubprojectInfo("/ws", "ws", <<>>), SubprojectInfo("/ws/alpha", "alpha", <<>>),
         [SubprojectInfo("/ws/beta", "beta", <<>>) EXCEPT !.error = "fatal: unable to access"] >>,
      << SubprojectInfo("/ws/alpha", "alpha", <<>>), SubprojectInfo("/ws/beta", "beta", <<>>),
         SubprojectInfo("/ws/libs/ws", "ws", <<>>) >> }

SummarySamples ==
    { OperationResult(TRUE, "Installed pkg==1.0.0", None, <<>>, "alpha"),
      OperationResult(FALSE, "Failed to install pkg==2.0.0: boom", None, <<>>, "alpha"),
      OperationResult(TRUE, "Warning: could not clean build/", None, <<>>, "alpha"),
      OperationResult(TRUE, "Git status: Repository is clean", None, <<>>, "beta"),
      OperationResult(FALSE, "Failed to fetch: warning: unable to access", None, <<>>, "beta"),
      OperationResult(TRUE, "Installed rootpkg", None, <<>>, "ws"),
      OperationResult(FALSE, "Failed to install rootpkg: warning", None, <<>>, "ws"),
      OperationResult(TRUE, "Would pull latest changes", "git pull", <<>>, None) }

InitSummary ==
    /\ subprojects \in SummarySubprojects
    /\ operations = <<>> /\ summary = NoResult
    /\ enabled = FALSE /\ git_only = FALSE /\ ignored_subprojects = {}
    /\ worktree = <<>> /\ executed = <<>> /\ deleted = {}
    /\ pc = "idle" /\ cur = 1 /\ loc = InitLoc /\ updates = <<>> /\ disturbed = 0 /\ faults = <<>>
    /\ StatusIdle /\ AuxIdle

\* one call of log_operation during the run
RecordNamed ==
    /\ Len(operations) < MaxOps
    /\ \E r \in SummarySamples :
         operations' = log_operation(operations, r.success, r.message, r.command,
                                     r.changes, r.project_name)
    /\ summary' = NoResult
    /\ UNCHANGED <<auxVars, statusVars, runVars>>

\* get_summary of a manager that knows the subprojects and the root
SummarizeRun ==
    /\ summary = NoResult
    /\ summary' = get_summary(operations, subprojects, RootPath)
    /\ UNCHANGED <<auxVars, operations, statusVars, runVars>>

NextSummary == RecordNamed \/ SummarizeRun

SpecSummary == InitSummary /\ [][NextSummary]_vars

-----------------------------------------------------------------------------
(* GitManager._clean_python_artifacts, called alone *)

InitCleanup ==
    /\ \E files \in SUBSET Range(FileSamples) : \E tracked \in SUBSET files :
          arg \in [files : {files}, tracked : {tracked}, rc : {"ok", "fail"}]
    /\ ret = NoResult
    /\ FinderIdle /\ StatusIdle /\ LogIdle /\ RunIdle

\* one call: git lists the tracked files, the loops delete
CallCleanArtifacts ==
    /\ ret = NoResult
    /\ ret' = [deleted |-> _clean_python_artifacts(arg.files, arg.rc, LsFiles(arg.tracked)),
               raised |-> FALSE]
    /\ UNCHANGED <<arg, finderVars, statusVars, logVars, runVars>>

NextCleanup == CallCleanArtifacts

SpecCleanup == InitCleanup /\ [][NextCleanup]_vars

-----------------------------------------------------------------------------
(* SubprojectFinder._parse_requirements as a function of the manifest's lines *)

MaxManifestLines == 3

\* lines of a requirements.txt, without their line ends
ManifestLineSamples ==
    {"", "# comment", "  # indented", "requests>=2.0", " requests==2.28.0 ",
     "numpy==1.24.0", "numpy"}

InitManifest ==
    /\ \E n \in 0..MaxManifestLines :
          arg \in [lines : [1..n -> ManifestLineSamples]]
    /\ ret = NoResult
    /\ FinderIdle /\ StatusIdle /\ LogIdle /\ RunIdle

\* one call of _parse_requirements on the file
CallParseRequirements ==
    /\ ret = NoResult
    /\ ret' = [requirements |-> _parse_requirements(arg.lines, 1, <<>>), raised |-> FALSE]
    /\ UNCHANGED <<arg, finderVars, statusVars, logVars, runVars>>

NextManifest == CallParseRequirements

SpecManifest == InitManifest /\ [][NextManifest]_vars

-----------------------------------------------------------------------------
(* Properties *)

IsInstallerCmd(cmd) == cmd # None /\ StartsWith(cmd, _pip_path(env_path) \o " install ")
IsCleanupCmd(cmd) == cmd = "git checkout -- ."
IsMutatingCmd(cmd) == cmd \in {"git pull", "git fetch"} \/ IsCleanupCmd(cmd) \/ IsInstallerCmd(cmd)
CmdNames(cmds) == [i \in 1..Len(cmds) |-> cmds[i].cmd]

\* C1: in dry-run mode no external command at all is executed during the run
\* (no git status, cherry, log, pull, fetch, checkout, no installer call).
C1_DryRunRunsNoCommand == enabled => executed = <<>>

\* C2: in dry-run mode pull, fetch, checkout, artifact deletion and the installer
\* are executed zero times in every reachable state; where the log names one of
\* these commands, the record is one of an intended ("Would ...") action.
C2_DryRunMutatesNothing ==
    enabled =>
        /\ \A i \in 1..Len(executed) : ~IsMutatingCmd(executed[i].cmd)
        /\ deleted = {}
        /\ \A i \in 1..Len(operations) :
              IsMutatingCmd(operations[i].command) =>
                  operations[i].success /\ StartsWith(operations[i].message, "Would ")

\* a finished dry-run that recorded an intended pull and an intended install
C2_Witness ==
    /\ enabled /\ pc = "done"
    /\ \E i \in 1..Len(operations) : operations[i].command = "git pull"
    /\ \E i \in 1..Len(operations) : IsInstallerCmd(operations[i].command)
    /\ Len(executed) > 0

\* C3: in execute mode an update of a repository classified Dirty or Ahead issues,
\* after the classification, a fetch and nothing else (no pull, no checkout, no
\* deletion), and succeeds iff the fetch exits with status zero.
C3_NotCleanFetchesOnly ==
    \A k \in 1..Len(updates) :
        LET u == updates[k]
        IN  (~enabled /\ u.first # NoResult /\ u.first.status_msg \in {MsgDirty, MsgAhead}) =>
                /\ CmdNames(u.cmds) = <<"git fetch">>
                /\ u.success <=> u.cmds[1].rc = "ok"

\* a Dirty repository whose fetch failed, and the update with it
C3_Witness ==
    \E k \in 1..Len(updates) :
        /\ ~enabled
        /\ updates[k].first # NoResult
        /\ updates[k].first.status_msg = MsgDirty
        /\ ~updates[k].success
        /\ deleted = {}

\* C4: in execute mode, when the first classification is Clean and the re-check is
\* not, the update fails with a "not clean" message and runs neither pull nor
\* fetch; a pull runs only after a re-check that returned Clean.
C4_RecheckGuardsPull ==
    \A k \in 1..Len(updates) :
        LET u == updates[k]
            names == CmdNames(u.cmds)
        IN  (~enabled /\ u.first # NoResult) =>
                /\ (u.first.is_clean /\ u.recheck # NoResult /\ ~u.recheck.is_clean) =>
                       /\ ~u.success
                       /\ Contains(u.message, "not clean")
                       /\ \A i \in 1..Len(names) : names[i] \notin {"git pull", "git fetch"}
                /\ \A i \in 1..Len(names) :
                       names[i] = "git pull" =>
                           /\ u.recheck # NoResult /\ u.recheck.is_clean
                           /\ \E j \in 1..(i - 1) : names[j] = "git status --porcelain"

\* a repository first Clean and then, at the re-check, not
C4_Witness ==
    \E k \in 1..Len(updates) :
        /\ ~enabled
        /\ updates[k].first # NoResult /\ updates[k].first.is_clean
        /\ updates[k].recheck # NoResult /\ updates[k].recheck.status_msg = MsgDirty

\* the status lines get_git_status looks at
SeenLines == SelectSeq(RawStatusLines(st_stdout), LAMBDA l : l # "")
Classified == st_result # NoResult /\ st_rc = "ok"

\* C5: wasFilteredClean is true exactly when the filter removed at least one
\* status line; for an empty status output it is false.
C5_FlagIffFilterRemoved ==
    Classified =>
        (st_result.was_cleaned_by_filtering
            <=> \E i \in 1..Len(SeenLines) : _is_ignored_change(SeenLines[i]))

\* C6: a successful status query yields exactly one of Dirty, Ahead, Clean: Dirty
\* iff a status line survives the filter, else Ahead iff the unpushed-commit query
\* printed anything, else Clean; only Clean reports the repository as clean.
C6_ThreeWayClassification ==
    Classified =>
        LET survives == \E i \in 1..Len(SeenLines) : ~_is_ignored_change(SeenLines[i])
            unpushed == Strip(st_cherry) # ""
        IN  /\ st_result.status_msg \in {MsgDirty, MsgAhead, MsgClean}
            /\ st_result.status_msg = MsgDirty <=> survives
            /\ st_result.status_msg = MsgAhead <=> (~survives /\ unpushed)
            /\ st_result.status_msg = MsgClean <=> (~survives /\ ~unpushed)
            /\ st_result.is_clean <=> st_result.status_msg = MsgClean

\* only ignorable lines, and unpushed commits: Ahead
C6_Witness ==
    /\ Classified
    /\ Len(SeenLines) > 0
    /\ st_result.status_msg = MsgAhead
    /\ ~st_result.is_clean

\* the match the ignore patterns are meant to make: a file pattern "*.ext" matches
\* a filename ending in ".ext", a directory pattern "dir/" one starting with it
IntendedMatch(filename, pattern) ==
    IF EndsWith(pattern, "/") THEN StartsWith(filename, pattern)
    ELSE IF StartsWith(pattern, "*") THEN EndsWith(filename, SubSeq(pattern, 2, Len(pattern)))
    ELSE EndsWith(filename, pattern)

IntendedIgnorable(line) ==
    /\ Len(line) >= 3
    /\ StatusRelevant(SubSeq(line, 1, 1), SubSeq(line, 2, 2))
    /\ \E k \in 1..Len(PYTHON_IGNORE_PATTERNS) :
          IntendedMatch(Strip(SubSeq(line, 4, Len(line))), PYTHON_IGNORE_PATTERNS[k])

\* C7: an untracked, modified or added line whose filename matches an ignore
\* pattern (suffix for file patterns such as *.pyc, prefix for directory patterns)
\* is ignorable, and a repository with only such lines is not Dirty.
C7_ArtifactLinesIgnored ==
    Classified =>
        /\ \A i \in 1..Len(SeenLines) :
              IntendedIgnorable(SeenLines[i]) => _is_ignored_change(SeenLines[i])
        /\ (\A i \in 1..Len(SeenLines) : IntendedIgnorable(SeenLines[i]))
              => st_result.status_msg # MsgDirty

\* C8: the log is append-only: a step either leaves it as it is or appends
\* exactly one record at its end, and get_summary leaves it as it is.
C8_AppendOnly ==
    [][ /\ \/ operations' = operations
           \/ /\ Len(operations') = Len(operations) + 1
              /\ SubSeq(operations', 1, Len(operations)) = operations
        /\ (summary' # NoResult /\ summary = NoResult) => operations' = operations ]_vars

\* records were appended and a summary was made of them
C8_Witness == Len(operations) >= 2 /\ summary # NoResult

\* the install records of the log, read one by one
InstallRecord(op) ==
    /\ op.success /\ ~Falsy(op.project_name)
    /\ Contains(Lower(op.message), "installed")
    /\ Len(Words(op.message)) >= 2
RecordedBy(package) ==
    {operations[i].project_name : i \in {j \in 1..Len(operations) :
        /\ InstallRecord(operations[j])
        /\ PackageOf(PackageSpecOf(operations[j].message)) = package}}
RecordedPackages ==
    {PackageOf(PackageSpecOf(operations[i].message)) :
        i \in {j \in 1..Len(operations) : InstallRecord(operations[j])}}
\* the version a subproject last recorded for a package
RecordedVersion(package, project) ==
    LET last == CHOOSE i \in 1..Len(operations) :
                    /\ InstallRecord(operations[i])
                    /\ PackageOf(PackageSpecOf(operations[i].message)) = package
                    /\ operations[i].project_name = project
                    /\ \A j \in (i + 1)..Len(operations) :
                          ~(/\ InstallRecord(operations[j])
                            /\ PackageOf(PackageSpecOf(operations[j].message)) = package
                            /\ operations[j].project_name = project)
    IN  VersionOf(PackageSpecOf(operations[last].message))

\* C9: a package is in the conflicts view, with every (subproject, version) pair,
\* iff at least two subprojects recorded it and their versions are not all equal;
\* it is in a subproject's unique view iff that subproject alone recorded it; a
\* package several subprojects recorded with one version is in neither.
C9_ConflictsAndUniques ==
    summary # NoResult =>
        LET conflicts == summary.conflicts
            unique_packages == summary.unique_packages
            InUnique(package, project) ==
                DictHas(unique_packages, project)
                    /\ package \in Range(DictGet(unique_packages, project))
        IN  /\ Range(DictKeys(conflicts)) \subseteq RecordedPackages
            /\ \A package \in RecordedPackages :
                  LET projects == RecordedBy(package)
                      versions == {RecordedVersion(package, q) : q \in projects}
                  IN  /\ DictHas(conflicts, package)
                         <=> (Cardinality(projects) >= 2 /\ Cardinality(versions) >= 2)
                      /\ DictHas(conflicts, package) =>
                            Range(DictGet(conflicts, package))
                               = {<<q, RecordedVersion(package, q)>> : q \in projects}
                      /\ \A q \in Range(DictKeys(unique_packages)) \cup projects :
                            InUnique(package, q) <=> projects = {q}
            /\ \A i \in 1..Len(unique_packages) :
                  Range(unique_packages[i].value) \subseteq RecordedPackages

\* the conflict on "pkg" with both entries, and a unique installation beside it
C9_Witness ==
    /\ summary # NoResult
    /\ DictHas(summary.conflicts, "pkg")
    /\ Len(DictGet(summary.conflicts, "pkg")) >= 2
    /\ Len(summary.unique_packages) > 0

\* the installer commands issued for the current subproject so far: executed, or
\* in dry-run recorded as the command that would be executed
IssuedInstalls ==
    IF enabled
    THEN SelectSeq(CmdNames([i \in 1..(Len(operations) - loc.opmark) |->
                               [cmd |-> operations[loc.opmark + i].command]]),
                   IsInstallerCmd)
    ELSE CmdNames(SubSeq(executed, loc.mark + 1, Len(executed)))

\* C10: one installer command per dependency; its argument is '<name>==V' for an
\* equals constraint on V and '<name>' for a dependency without constraint.
C10_InstallerArgument ==
    pc = "install" =>
        /\ Len(IssuedInstalls) = loc.pkg - 1
        /\ \A k \in 1..Len(IssuedInstalls) :
              LET package == Sub.requirements[k].value
                  expected == IF package.version = NoVersion THEN package.name
                              ELSE package.name \o "==" \o package.version.version
              IN  /\ IsInstallerCmd(IssuedInstalls[k])
                  /\ (package.version = NoVersion \/ package.version.specifier = "==")
                        => Words(IssuedInstalls[k]) = <<_pip_path(env_path), "install", expected>>

\* the probes whose non-zero exit is an answer (not a repository, no origin, no
\* commit) rather than a failure
ProbeCmds == {"git rev-parse --is-inside-work-tree", "git remote get-url origin",
              "git log -1 --format=%cI"}
\* a command failure: not a probe's answer, and not an installer failure whose
\* stderr is classed as benign
RealFault(f) ==
    /\ f.cmd \notin ProbeCmds
    /\ ~(/\ IsInstallerCmd(f.cmd) /\ f.rc = "fail"
         /\ \E k \in 1..Len(BenignStderr) : Contains(Lower(f.stderr), BenignStderr[k]))
FailedIn(i) == \E k \in 1..Len(faults) : faults[k].sp = i /\ RealFault(faults[k])
\* process_subproject was entered for subproject j
Processed(j) ==
    IF enabled
    THEN \E k \in 1..Len(operations) :
            operations[k].message = "Checking if " \o subprojects[j].path \o " is a Git repository"
    ELSE \E k \in 1..Len(executed) :
            /\ executed[k].cmd = "git rev-parse --is-inside-work-tree"
            /\ executed[k].cwd = subprojects[j].path
LaterProcessed(i) ==
    \A j \in (i + 1)..Len(subprojects) :
        subprojects[j].name \notin ignored_subprojects => Processed(j)
FailedRecordOf(i) ==
    \E k \in 1..Len(operations) :
        ~operations[k].success /\ operations[k].project_name = subprojects[i].name

\* C11: a failed source-control or installer command of one subproject does not stop
\* the run: when the run is over the summary was rendered, every later non-ignored
\* subproject was processed, and the log holds a failed record of the owning subproject.
C11_FailureIsolatedAndRecorded ==
    pc = "done" =>
        /\ summary # NoResult
        /\ \A i \in 1..Len(subprojects) :
              FailedIn(i) => (LaterProcessed(i) /\ FailedRecordOf(i))

\* the part of C11 about the run going on: when the run is over, the summary was
\* rendered and every non-ignored subprojects after a failure was processed
C11_SiblingsProcessed ==
    pc = "done" =>
        /\ summary # NoResult
        /\ \A i \in 1..Len(subprojects) : FailedIn(i) => LaterProcessed(i)

\* the position of a step of run() in the order the code executes them
Rank(p) ==
    CASE p = "loop" -> 0 [] p = "is_git_repo" -> 1 [] p = "get_remote_url" -> 2
      [] p = "status" -> 3 [] p = "update" -> 4 [] p = "cleanup" -> 5
      [] p = "recheck" -> 6 [] p = "pull" -> 7 [] p = "fetch" -> 7
      [] p = "commit_date" -> 8 [] p = "pip" -> 9 [] p = "install" -> 10
      [] p = "summary" -> 11 [] p = "done" -> 12

\* every step moves the run forward (next subproject, later step, next package, or
\* one of the boundedly many disturbances), so no failure makes it loop for ever
C11_RunAdvances ==
    [][ \/ cur' > cur
        \/ cur' = cur /\ Rank(pc') > Rank(pc)
        \/ cur' = cur /\ pc' = pc /\ loc'.pkg > loc.pkg
        \/ cur' = cur /\ pc' = pc /\ loc'.pkg = loc.pkg /\ disturbed' > disturbed ]_vars

\* the part of C11 about pull, fetch and installer failures: update_repository or
\* install_package returned a failure, and the owning subproject has a failed record
C11_ReportedFailuresRecorded ==
    pc = "done" =>
        \A i \in 1..Len(subprojects) :
            (\E k \in 1..Len(faults) :
                /\ faults[k].sp = i /\ RealFault(faults[k])
                /\ (faults[k].cmd \in {"git pull", "git fetch"} \/ IsInstallerCmd(faults[k].cmd)))
                => FailedRecordOf(i)

\* discovery is over
Discovery_Done == scan.loop = "done"
\* the directory holds a manifest file or a version-control directory
HoldsMarker(d) == d.req \/ d.git = "dir"
DirPath(d) == PathStr(root_path \o d.rel)
Returned(d) == \E j \in 1..Len(found_subprojects) : found_subprojects[j].path = DirPath(d)

\* C12: discover(root, maxDepth) returns a candidate directory (manifest file or
\* version-control directory, no dot-prefixed segment) iff its depth, the number of
\* its segments relative to the root, is at most maxDepth.
C12_ReturnedIffWithinDepth ==
    Discovery_Done =>
        \A k \in 1..Len(dirs) :
            (HoldsMarker(dirs[k]) /\ ~HasDotPart(root_path \o dirs[k].rel)) =>
                (Returned(dirs[k]) <=> Len(dirs[k].rel) <= max_depth)

\* maxDepth = 2 over manifests at depths 1, 2 and 3: the first two are returned
C12_Witness ==
    /\ Discovery_Done /\ max_depth = 2
    /\ \E k \in 1..Len(dirs) : Len(dirs[k].rel) = 3 /\ dirs[k].req /\ ~Returned(dirs[k])
    /\ \E k \in 1..Len(dirs) : Len(dirs[k].rel) = 2 /\ dirs[k].req /\ Returned(dirs[k])
    /\ \E k \in 1..Len(dirs) : Len(dirs[k].rel) = 1 /\ dirs[k].req /\ Returned(dirs[k])

\* C13: hiddenness looks only at the segments relative to the search root: a marked
\* directory within maxDepth is rejected iff one of its segments below the root
\* starts with a dot; a dot-prefixed segment of the root's own path rejects nothing.
C13_HiddenRelativeToRoot ==
    Discovery_Done =>
        \A k \in 1..Len(dirs) :
            (HoldsMarker(dirs[k]) /\ Len(dirs[k].rel) <= max_depth) =>
                (~Returned(dirs[k]) <=> HasDotPart(dirs[k].rel))

\* C14: at most one Subproject per directory: no two returned Subprojects have the
\* same path, and a directory with both a manifest and a version-control directory
\* yields exactly one, which carries the manifest's dependencies.
C14_OnePerDirectory ==
    /\ \A i, j \in 1..Len(found_subprojects) :
          found_subprojects[i].path = found_subprojects[j].path => i = j
    /\ Discovery_Done =>
          \A k \in 1..Len(dirs) :
              (dirs[k].req /\ dirs[k].git = "dir" /\ Returned(dirs[k])) =>
                  /\ Cardinality({j \in 1..Len(found_subprojects) :
                                     found_subprojects[j].path = DirPath(dirs[k])}) = 1
                  /\ \A j \in 1..Len(found_subprojects) :
                        found_subprojects[j].path = DirPath(dirs[k]) =>
                            found_subprojects[j].requirements
                                = _parse_requirements(dirs[k].manifest, 1, <<>>)

\* a directory with both markers was returned, with dependencies, beside another
C14_Witness ==
    /\ Discovery_Done
    /\ Len(found_subprojects) >= 2
    /\ \E k \in 1..Len(dirs) :
          /\ dirs[k].req /\ dirs[k].git = "dir" /\ Returned(dirs[k])
          /\ \E j \in 1..Len(found_subprojects) :
                /\ found_subprojects[j].path = DirPath(dirs[k])
                /\ Len(found_subprojects[j].requirements) >= 2

\* the call of is_compatible_with has returned
Compat_Returned == ret # NoResult /\ "other_version" \in DOMAIN arg
\* the three numbers of a parsed release, zero where it is shorter
Part(v, k) == IF Len(v.release) >= k THEN v.release[k] ELSE 0
\* v < w, v = w as versions: by major, then minor, then micro number
VLess(v, w) ==
    \/ Part(v, 1) < Part(w, 1)
    \/ Part(v, 1) = Part(w, 1) /\ Part(v, 2) < Part(w, 2)
    \/ Part(v, 1) = Part(w, 1) /\ Part(v, 2) = Part(w, 2) /\ Part(v, 3) < Part(w, 3)
VEq(v, w) == \A k \in 1..3 : Part(v, k) = Part(w, k)
Expected(op, constraint, candidate) ==
    CASE op = "==" -> VEq(candidate, constraint)
      [] op = ">=" -> ~VLess(candidate, constraint)
      [] op = "<=" -> ~VLess(constraint, candidate)
      [] op = ">"  -> VLess(constraint, candidate)
      [] op = "<"  -> VLess(candidate, constraint)
      [] op = "!=" -> ~VEq(candidate, constraint)
      [] op = "~=" -> /\ ~VLess(candidate, constraint)
                      /\ Part(candidate, 1) < Part(constraint, 1) + 1

\* C15: when both version strings parse, isCompatible is the comparison its operator
\* names, compatible-release being constraint <= candidate < (major+1).0.0; when
\* either string fails to parse it returns false; it raises nothing.
C15_IsCompatible ==
    Compat_Returned =>
        LET constraint == parse(arg.version.version)
            candidate == parse(arg.other_version)
        IN  /\ ~ret.raised
            /\ IF constraint.valid /\ candidate.valid
               THEN ret.value = Expected(arg.version.specifier, constraint, candidate)
               ELSE ret.value = FALSE

\* compatible-release 2.1.0 has accepted 2.9.9
C15_Witness ==
    /\ Compat_Returned
    /\ arg.version = [specifier |-> "~=", version |-> "2.1.0"]
    /\ arg.other_version = "2.9.9" /\ ret.value

\* the call of compare_versions has returned
Comparator_Returned == ret # NoResult /\ "main_package" \in DOMAIN arg
BothConstrained == arg.main_package.version # NoVersion /\ arg.sub_package.version # NoVersion
ReferenceVersion == parse(arg.main_package.version.version)
CandidateVersion == parse(arg.sub_package.version.version)
ReferenceIsExact == arg.main_package.version.specifier = "=="

C17_UnparsableIsFalse ==
    (Comparator_Returned /\ BothConstrained
        /\ (~ReferenceVersion.valid \/ ~CandidateVersion.valid))
        => (ret.value = FALSE /\ ~ret.raised)

\* get_remote_url has returned the answer of a successful command
Remote_Returned == ret # NoResult /\ "url" \in DOMAIN arg /\ arg.rc = "ok"
\* the URL has the SSH shorthand form git@host:path
IsShorthand(url) == StartsWith(url, "git@") /\ Find(url, ":") > 5
ShorthandHost(url) == SubSeq(url, 5, Find(url, ":") - 1)
ShorthandPath(url) == SubSeq(url, Find(url, ":") + 1, Len(url))

\* C18: for every host a remote URL git@host:path is returned as
\* https://host/path, and every URL not of that form is returned unchanged.
C18_ShorthandRewrittenForEveryHost ==
    Remote_Returned =>
        ret.value = IF IsShorthand(arg.url)
                    THEN "https://" \o ShorthandHost(arg.url) \o "/" \o ShorthandPath(arg.url)
                    ELSE arg.url

\* C18 as the code has it: git@github.com:path is returned as
\* https://github.com/path; every other URL, the SSH shorthand of another host
\* included, is returned unchanged.
C18_ShorthandRewrittenForGitHub ==
    Remote_Returned =>
        ret.value = IF IsShorthand(arg.url) /\ ShorthandHost(arg.url) = "github.com"
                    THEN "https://github.com/" \o ShorthandPath(arg.url)
                    ELSE arg.url

\* a GitHub shorthand has been returned rewritten
C18_Witness ==
    /\ Remote_Returned
    /\ arg.url = "git@github.com:user/repo.git"
    /\ ret.value = "https://github.com/user/repo.git"

\* the i-th discovered subproject is in the ignore set
Ignored(i) == subprojects[i].name \in ignored_subprojects

\* C19: an ignored subproject is skipped entirely: no command was executed in its
\* directory, it is as discovery created it (remote URL, commit date and error
\* unset), and no record of the log carries its name or its path.
C19_IgnoredSkippedEntirely ==
    \A i \in 1..Len(subprojects) :
        Ignored(i) =>
            /\ \A k \in 1..Len(executed) : executed[k].cwd # subprojects[i].path
            /\ \E d \in Range(Discovered) : d.info = subprojects[i]
            /\ subprojects[i].github_url = None
            /\ subprojects[i].last_commit_date = None
            /\ subprojects[i].error = None
            /\ \A k \in 1..Len(operations) :
                  /\ operations[k].project_name # subprojects[i].name
                  /\ ~Contains(operations[k].message, subprojects[i].path)
                  /\ ~Contains(operations[k].message, subprojects[i].name)

\* C19, step by step: the turn of the loop that meets an ignored subproject moves to
\* the next one and changes nothing else.
C19_SkipStepChangesNothing ==
    [][ (pc = "loop" /\ cur <= Len(subprojects) /\ Sub.name \in ignored_subprojects)
            => /\ cur' = cur + 1 /\ pc' = "loop"
               /\ UNCHANGED <<subprojects, operations, executed, deleted, worktree>> ]_vars

\* a finished run that skipped an ignored subproject and worked on another
C19_Witness ==
    /\ pc = "done"
    /\ \E i \in 1..Len(subprojects) : Ignored(i)
    /\ \E j \in 1..Len(subprojects) :
          ~Ignored(j) /\ \E k \in 1..Len(executed) : executed[k].cwd = subprojects[j].path

\* the names the log's named records carry
NamedProjects ==
    {operations[k].project_name : k \in {j \in 1..Len(operations) : ~Falsy(operations[j].project_name)}}
\* the name of the run's root subproject, when the root is one
RootNames == {subprojects[i].name : i \in {j \in 1..Len(subprojects) : subprojects[j].path = RootPath}}
RecordsOf(n) == {k \in 1..Len(operations) : operations[k].project_name = n}
\* how often a name stands in one of the sections
TimesIn(section, n) == Cardinality({k \in 1..Len(section) : section[k].name = n})
Errored(n) == \E k \in RecordsOf(n) : ~operations[k].success
Warned(n) ==
    /\ ~Errored(n)
    /\ \E k \in RecordsOf(n) :
          operations[k].success /\ Contains(Lower(operations[k].message), "warning")

\* C20: summarize() places every name with at least one named record, other than the
\* root subproject's, in exactly one class: errored if any of its records failed,
\* else warned if a successful record's message contains "warning" (in any case of
\* letters), else succeeded; the root subproject stands in none of the three sections.
C20_ExactlyOneClass ==
    (summary # NoResult /\ subprojects \in SummarySubprojects) =>
        /\ \A n \in NamedProjects \ RootNames :
              /\ TimesIn(summary.error_projects, n) + TimesIn(summary.warning_projects, n)
                    + TimesIn(summary.success_projects, n) = 1
              /\ TimesIn(summary.error_projects, n) = 1 <=> Errored(n)
              /\ TimesIn(summary.warning_projects, n) = 1 <=> Warned(n)
              /\ TimesIn(summary.success_projects, n) = 1 <=> (~Errored(n) /\ ~Warned(n))
        /\ \A n \in RootNames :
              TimesIn(summary.error_projects, n) + TimesIn(summary.warning_projects, n)
                 + TimesIn(summary.success_projects, n) = 0
        /\ \A k \in 1..Len(summary.error_projects) :
              summary.error_projects[k].name \in NamedProjects
        /\ \A k \in 1..Len(summary.warning_projects) :
              summary.warning_projects[k].name \in NamedProjects
        /\ \A k \in 1..Len(summary.success_projects) :
              summary.success_projects[k].name \in NamedProjects

\* a summary with an errored project whose failed record says "warning", a second
\* project in another class, and records of the root left out
C20_Witness ==
    /\ summary # NoResult /\ subprojects \in SummarySubprojects
    /\ RootNames # {} /\ RootNames \subseteq NamedProjects
    /\ \E n \in NamedProjects : Errored(n) /\ TimesIn(summary.error_projects, n) = 1
    /\ \E n \in NamedProjects \ RootNames :
          ~Errored(n) /\ TimesIn(summary.error_projects, n) = 0

\* the lines git printed, as printed: XY, a space, the filename
PrintedLines == SelectSeq(Split(st_stdout, "\n"), LAMBDA l : l # "")
\* the line's status characters say neither untracked, modified nor added, or its
\* filename matches no ignore pattern
NeverIgnorable(line) ==
    \/ ~StatusRelevant(SubSeq(line, 1, 1), SubSeq(line, 2, 2))
    \/ \A k \in 1..Len(PYTHON_IGNORE_PATTERNS) :
          ~PatternMatches(Strip(SubSeq(line, 4, Len(line))), PYTHON_IGNORE_PATTERNS[k])

\* C22: a status line whose working-tree character is neither '?' nor 'M' and whose
\* index character is neither 'M' nor 'A', or whose filename matches no ignore
\* pattern, is never ignored: with such a line the repository is Dirty.
C22_UnignorableLineMakesDirty ==
    (Classified /\ \E i \in 1..Len(PrintedLines) : NeverIgnorable(PrintedLines[i]))
        => (st_result.status_msg = MsgDirty /\ ~st_result.is_clean)

\* the cleanup has returned
Cleanup_Returned == ret # NoResult /\ "tracked" \in DOMAIN arg
\* the file lies in a directory that matches a directory pattern and holds no
\* tracked file
InUntrackedArtifactDir(f) ==
    \E d \in DirsAbove(f, 1) :
        /\ \E k \in 1..Len(PYTHON_IGNORE_PATTERNS) :
              /\ EndsWith(PYTHON_IGNORE_PATTERNS[k], "/")
              /\ GlobName(BaseName(d), RStripChar(PYTHON_IGNORE_PATTERNS[k], "/"))
        /\ \A g \in arg.tracked : ~StartsWith(g, d \o "/")
\* the file matches a file pattern and is not tracked
UntrackedArtifactFile(f) ==
    /\ f \notin arg.tracked
    /\ \E k \in 1..Len(PYTHON_IGNORE_PATTERNS) :
          ~EndsWith(PYTHON_IGNORE_PATTERNS[k], "/") /\ GlobName(BaseName(f), PYTHON_IGNORE_PATTERNS[k])

\* C23: artifact cleanup never deletes a tracked file: what it deletes is an
\* untracked file matching a file pattern or lies in a directory that matches a
\* directory pattern and holds no tracked file; every tracked file still exists.
C23_TrackedFilesSurvive ==
    Cleanup_Returned =>
        /\ ret.deleted \cap arg.tracked = {}
        /\ \A f \in ret.deleted : UntrackedArtifactFile(f) \/ InUntrackedArtifactDir(f)

\* the nearest ancestor of a directory strictly below the root that holds a
\* manifest file or a version-control directory, or <<>>
RECURSIVE NearestBelowRoot(_)
NearestBelowRoot(rel) ==
    IF Len(rel) <= 1 THEN <<>>
    ELSE LET up == SubSeq(rel, 1, Len(rel) - 1)
         IN  IF \E k \in 1..Len(dirs) : dirs[k].rel = up /\ HoldsMarker(dirs[k])
             THEN up ELSE NearestBelowRoot(up)

\* C24: for every returned Subproject, parent is the nearest ancestor strictly below
\* the root that holds a manifest or a version-control directory, or unset when
\* there is none; nested is true iff parent is set; a direct child of the root is
\* never nested.
C24_ParentLinkage ==
    \A j \in 1..Len(found_subprojects) :
        \A k \in 1..Len(dirs) :
            found_subprojects[j].path = DirPath(dirs[k]) =>
                LET up == NearestBelowRoot(dirs[k].rel)
                IN  /\ found_subprojects[j].parent_path
                          = IF up = <<>> THEN None ELSE PathStr(root_path \o up)
                    /\ found_subprojects[j].is_nested <=> found_subprojects[j].parent_path # None
                    /\ Len(dirs[k].rel) = 1 => ~found_subprojects[j].is_nested

Manifest_Returned == ret # NoResult /\ "lines" \in DOMAIN arg
\* the line is neither blank nor a comment
IsDependencyLine(line) == Strip(line) # "" /\ ~StartsWith(Strip(line), "#")
\* the positions of the manifest's dependency lines
DependencyLines == {i \in 1..Len(arg.lines) : IsDependencyLine(arg.lines[i])}
NameOnLine(i) == from_string(Strip(arg.lines[i])).name

\* C25: parsing a manifest yields exactly one Dependency per distinct package name
\* found on its lines that are neither blank nor comments, holding the value parsed
\* from the last line with that name; no line keeps the lines after it from being
\* parsed.
C25_OnePerNameLastWins ==
    Manifest_Returned =>
        LET r == ret.requirements
        IN  /\ {r[k].key : k \in 1..Len(r)} = {NameOnLine(i) : i \in DependencyLines}
            /\ \A j, k \in 1..Len(r) : r[j].key = r[k].key => j = k
            /\ \A i \in DependencyLines :
                  (\A l \in DependencyLines : l > i => NameOnLine(l) # NameOnLine(i))
                      => DictGet(r, NameOnLine(i)) = from_string(Strip(arg.lines[i]))

\* a manifest with a comment, a blank line and a name on two lines with different
\* values has been parsed
C25_Witness ==
    /\ Manifest_Returned
    /\ \E i, l \in DependencyLines :
          /\ i < l /\ NameOnLine(i) = NameOnLine(l)
          /\ from_string(Strip(arg.lines[i])) # from_string(Strip(arg.lines[l]))
    /\ \E i \in 1..Len(arg.lines) : ~IsDependencyLine(arg.lines[i])

\* the records and commands of the installation phase
IsInstallRecord(op) ==
    StartsWith(op.message, "Installed ") \/ StartsWith(op.message, "Failed to install ")
    \/ StartsWith(op.message, "Would install package: ")
\* an install record of the named subproject is in the log
InstallBegun(name) ==
    \E k \in 1..Len(operations) :
        operations[k].project_name = name /\ IsInstallRecord(operations[k])

\* C26: subprojects are processed one at a time in discovery order: the position in
\* the discovered list never goes back, every command run and every record written
\* belongs to the subproject at that position, and once a subproject has an install
\* record no status or reconciliation command or record of it follows.
C26_OneAtATimeInOrder ==
    [][LET newcmds == SubSeq(executed', Len(executed) + 1, Len(executed'))
           newrecs == SubSeq(operations', Len(operations) + 1, Len(operations'))
           installing ==
               \/ \E k \in 1..Len(newcmds) : IsInstallerCmd(newcmds[k].cmd)
               \/ \E k \in 1..Len(newrecs) : IsInstallRecord(newrecs[k])
       IN  /\ cur' >= cur
           /\ Len(executed') >= Len(executed) /\ SubSeq(executed', 1, Len(executed)) = executed
           /\ (pc # "idle") =>
                 Len(operations') >= Len(operations)
                     /\ SubSeq(operations', 1, Len(operations)) = operations
           /\ (pc # "idle" /\ Len(newcmds) + Len(newrecs) > 0) =>
                 /\ cur \in 1..Len(subprojects)
                 /\ cur' \in {cur, cur + 1}
                 /\ \A k \in 1..Len(newcmds) :
                       newcmds[k].cwd # None => newcmds[k].cwd = subprojects[cur].path
                 /\ \A k \in 1..Len(newrecs) :
                       newrecs[k].project_name # None
                           => newrecs[k].project_name = subprojects[cur].name
                 /\ IF installing
                    THEN /\ \A k \in 1..Len(newcmds) : IsInstallerCmd(newcmds[k].cmd)
                         /\ \A k \in 1..Len(newrecs) : IsInstallRecord(newrecs[k])
                         /\ \E k \in 1..Len(newrecs) :
                               newrecs[k].project_name = subprojects[cur].name
                    ELSE ~InstallBegun(subprojects[cur].name)
      ]_vars

\* a run in execute mode has reconciled and installed two subprojects in a row
C26_Witness ==
    /\ pc = "done" /\ ~enabled /\ Len(subprojects) = 2
    /\ \A i \in 1..2 :
          /\ InstallBegun(subprojects[i].name)
          /\ \E k \in 1..Len(operations) :
                /\ operations[k].project_name = subprojects[i].name
                /\ StartsWith(operations[k].message, "Git status: ")
    /\ \E k \in 1..Len(executed) : IsInstallerCmd(executed[k].cmd)

\* C27: with pairwise distinct subproject names, at the end of a run a subproject's
\* error field is set if and only if the log holds a failed record with its name, and
\* no subproject with a stored error stands in the succeeded section.
C27_ErrorIffFailedRecord ==
    (pc = "done" /\ \A i, j \in 1..Len(subprojects) :
                        subprojects[i].name = subprojects[j].name => i = j) =>
        /\ \A i \in 1..Len(subprojects) :
              subprojects[i].error # None <=> Errored(subprojects[i].name)
        /\ \A k \in 1..Len(summary.success_projects) :
              \A i \in 1..Len(subprojects) :
                  subprojects[i].name = summary.success_projects[k].name
                      => subprojects[i].error = None /\ summary.success_projects[k].error = None

\* a finished run with one subproject whose reconciliation failed, or whose
\* installation failed, and another that succeeded
C27_Witness ==
    /\ pc = "done" /\ Len(subprojects) = 2
    /\ \E i \in 1..2 : subprojects[i].error # None /\ Errored(subprojects[i].name)
    /\ \E i \in 1..2 : subprojects[i].error = None
                       /\ TimesIn(summary.success_projects, subprojects[i].name) = 1

\* the reconciliation of the subproject at position i has failed
ReconciliationFailed(i) == \E u \in 1..Len(updates) : updates[u].sp = i /\ ~updates[u].success

\* C28: when a subproject's reconciliation fails (pull or fetch ends non-zero, or the
\* repository is not clean after cleanup), nothing is installed for it: no step
\* appends an installer command or an install record while it is the current
\* subproject, its log holds no install record, and it has exactly one failed
\* record, the one of the reconciliation.
C28_NoInstallAfterFailedReconciliation ==
    /\ [](\A u \in 1..Len(updates) :
            ~updates[u].success =>
                LET n == subprojects[updates[u].sp].name
                IN  /\ ~InstallBegun(n)
                    /\ Cardinality({k \in RecordsOf(n) : ~operations[k].success}) = 1
                    /\ \A k \in RecordsOf(n) :
                          ~operations[k].success
                              => operations[k].message = "Git update failed: " \o updates[u].message)
    /\ [][(\/ \E k \in (Len(executed) + 1)..Len(executed') : IsInstallerCmd(executed'[k].cmd)
           \/ \E k \in (Len(operations) + 1)..Len(operations') : IsInstallRecord(operations'[k]))
             => ~ReconciliationFailed(cur)]_vars

\* a finished run in execute mode where one subproject's pull or fetch failed and
\* another, with a manifest, was installed
C28_Witness ==
    /\ pc = "done" /\ ~enabled /\ ~git_only
    /\ \E u \in 1..Len(updates) :
          /\ ~updates[u].success
          /\ Len(subprojects[updates[u].sp].requirements) > 0
          /\ \E k \in 1..Len(updates[u].cmds) : updates[u].cmds[k].cmd \in {"git pull", "git fetch"}
    /\ \E k \in 1..Len(executed) : IsInstallerCmd(executed[k].cmd)

\* the source-control records of the subproject at position i: its status and
\* update records, and the dry-run records that name its path
SourceControlRecords(i) ==
    {k \in 1..Len(operations) :
        \/ /\ operations[k].project_name = subprojects[i].name
           /\ ~IsInstallRecord(operations[k])
        \/ /\ operations[k].command # None
           /\ StartsWith(operations[k].command, "git ")
           /\ EndsWith(operations[k].message, " " \o subprojects[i].path)}

\* C30: dry-run reports a source-control action only where execute mode would perform
\* one: a subproject without a version-control checkout gets no source-control
\* record (no would-pull or would-fetch record among them) and keeps its remote URL
\* unset, in dry-run as in execute mode.
C30_ManifestOnlyHasNoSourceControl ==
    \A i \in 1..Len(subprojects) :
        ~worktree[i].is_repo =>
            /\ subprojects[i].github_url = None
            /\ \A k \in SourceControlRecords(i) :
                  ~StartsWith(operations[k].message, "Would pull changes")
                  /\ ~StartsWith(operations[k].message, "Would fetch changes")

\* the entries of the three per-project sections that carry the name
EntriesNamed(n) ==
    TimesIn(summary.error_projects, n) + TimesIn(summary.warning_projects, n)
        + TimesIn(summary.success_projects, n)
\* process_subproject has written a record for the subproject at position i
HasRun(i) ==
    \E u \in 1..Len(updates) : updates[u].sp = i

\* C29: two discovered subprojects at different paths stay separate in the report
\* even when their directories have the same basename: each has its own entry in the
\* report, and a succeeded entry counts no more installs than one subproject's
\* manifest holds and shows that subproject's own error string.
C29_SameBasenameStaysSeparate ==
    pc = "done" =>
        \A n \in {subprojects[i].name : i \in 1..Len(subprojects)} :
            LET same == {i \in 1..Len(subprojects) : subprojects[i].name = n /\ HasRun(i)}
            IN  /\ EntriesNamed(n) = Cardinality(same)
                /\ \A k \in 1..Len(summary.success_projects) :
                      summary.success_projects[k].name = n =>
                          \E i \in same :
                              /\ summary.success_projects[k].install_count
                                     <= Len(subprojects[i].requirements)
                              /\ summary.success_projects[k].error = subprojects[i].error

\* the log with the records of each subproject put together, the subprojects in the
\* order of their names: every subproject's own record sequence is kept
NameOf(op) == IF Falsy(op.project_name) THEN "" ELSE op.project_name
RECURSIVE Regrouped(_, _, _)
Regrouped(ops, i, out) ==
    IF i > Len(ops) THEN out
    ELSE Regrouped(ops, i + 1,
             SelectSeq(out, LAMBDA e : ~StrLess(NameOf(ops[i]), NameOf(e)))
                 \o <<ops[i]>>
                 \o SelectSeq(out, LAMBDA e : StrLess(NameOf(ops[i]), NameOf(e))))
\* the report as it is printed: the unique-installation lines join the sorted packages
Rendered(report) ==
    [report EXCEPT !.unique_packages =
        [k \in 1..Len(@) |-> [key |-> @[k].key, value |-> Range(@[k].value)]]]

\* C21: the rendered summary does not depend on the arrival order of different
\* subprojects' records: a log renders the same text, in every section and in the
\* package-conflict and unique-installation views, as the log that holds the same
\* record sequence for each subproject with the subprojects one after the other.
C21_ArrivalOrderIrrelevant ==
    (summary # NoResult /\ "raised" \notin DOMAIN summary) =>
        Rendered(summary) = Rendered(get_summary(Regrouped(operations, 1, <<>>), subprojects, None))

====
